---- MODULE Spec2Model ----
(***************************************************************************)
(* Model of the ST7735 interactive calibration tool (cal_lcd.cpp v2.0).    *)
(* The session state is the set of globals of the sketch; loop() is one    *)
(* action that decodes the bytes waiting in the serial receive buffer and  *)
(* runs the matching handler to completion.  Blocking reads inside a       *)
(* handler (exit confirmation, "press any key") are positions of pc.       *)
(***************************************************************************)
EXTENDS Integers, Sequences, FiniteSets, TLC

VARIABLES currentRotation, usableOriginX, usableOriginY, usableWidth,
          usableHeight, frameThickness, currentMode, lastSavedState,
          hasUnsavedChanges, hasEverSaved, currentDisplayName, configExists,
          input, rx, pc, job, out, tftRotation, LONG_BITS, lastEvent, nEvents,
          nLines, MAX_DISPLAYS, displays, displayCount, returned, buffers

vars == <<currentRotation, usableOriginX, usableOriginY, usableWidth,
          usableHeight, frameThickness, currentMode, lastSavedState,
          hasUnsavedChanges, hasEverSaved, currentDisplayName, configExists,
          input, rx, pc, job, out, tftRotation, LONG_BITS, lastEvent, nEvents,
          nLines, MAX_DISPLAYS, displays, displayCount, returned, buffers>>

\* The capacity and the registry of the display manager and the memory
\* that holds the names its callers pass, which the calibration session
\* never touches
managerVars == <<MAX_DISPLAYS, displays, displayCount, returned, buffers>>

(***************************************************************************)
(* Program constants                                                       *)
(***************************************************************************)
PUBLISHED_WIDTH == 160
PUBLISHED_HEIGHT == 128

MODE_NONE == -1
MODE_EDGE_ADJUST == 0
MODE_FRAME_MOVE == 1
MODE_THICKNESS == 2
MODE_ROTATION == 3
MODE_SAVE_EXIT == 4
MODE_EXIT_NO_SAVE == 5

\* Panel size of the INITR_BLACKTAB controller at rotation 0
TFT_NATIVE_WIDTH == 128
TFT_NATIVE_HEIGHT == 160

\* Minimum usable size and thickness limits used by the handlers
MIN_SIZE == 10
MAX_THICKNESS == 5

\* Range of int, which holds the bounds and every number of the commands
INT_MAX == 2147483647
INT_MIN == -2147483647 - 1

\* Width of long on the boards that have SerialUSB, for which the sketch
\* is written, and the widths of all its builds, the desktop included.
\* The width decides what a number outside the range of long is read as;
\* the sessions explored from a chosen display on type no such number and
\* run on the board, the session from power-up on either build.
BOARD_LONG_BITS == 32
LongWidths == {BOARD_LONG_BITS, 64}

(***************************************************************************)
(* Arithmetic of int.  A sum or difference that does not fit is undefined  *)
(* in C++; the builds of the sketch compute it in two's complement, so     *)
(* the result is the exact one reduced modulo 2^32 into INT_MIN..INT_MAX.  *)
(***************************************************************************)
IntAdd(a, b) ==
  IF b > 0 /\ a > INT_MAX - b THEN (a + INT_MIN) + (b + INT_MIN)
  ELSE IF b < 0 /\ a < INT_MIN - b THEN (a - INT_MIN) + (b - INT_MIN)
  ELSE a + b

IntNeg(a) == IF a = INT_MIN THEN INT_MIN ELSE 0 - a

IntSub(a, b) ==
  IF b = INT_MIN
    THEN IF a >= 0 THEN a + INT_MIN ELSE a - INT_MIN
    ELSE IntAdd(a, 0 - b)

(***************************************************************************)
(* Bounds of the model                                                     *)
(***************************************************************************)
\* Number of input bursts the operator sends to the idle loop
MaxEvents == 5
\* Number of those bursts that are legacy text lines
MaxLines == 1
\* Half-width of the windows of inputs tried around each clamping threshold
Margin == 1
\* Longest line typed at a prompt of the display selection
MaxName == 2
\* Largest capacity of the display registry that is explored
MaxCapacity == 3

(***************************************************************************)
(* tft.width() / tft.height() of the display driver, as functions of the   *)
(* rotation the driver was last given with tft.setRotation (tftRotation):  *)
(* the panel swaps its sides in the landscape rotations.                   *)
(***************************************************************************)
TftWidth(rot) == IF rot = 1 \/ rot = 3 THEN TFT_NATIVE_HEIGHT ELSE TFT_NATIVE_WIDTH

TftHeight(rot) == IF rot = 1 \/ rot = 3 THEN TFT_NATIVE_WIDTH ELSE TFT_NATIVE_HEIGHT

(***************************************************************************)
(* validateAndClampBounds as a function of (maxX, maxY, x, y, w, h).       *)
(* Each step reads the values left by the steps before it.                 *)
(***************************************************************************)
FloorRaiseAdd(v) == IF v < MIN_SIZE THEN v + MIN_SIZE ELSE v

FloorRaise(v) == IF v < MIN_SIZE THEN MIN_SIZE ELSE v

ClampOrigin(o, max) ==
  LET o1 == IF o < 0 THEN 0 ELSE o
  IN  IF o1 >= max THEN max - 1 ELSE o1

\* One axis of the algorithm; modified is set by every step that fires,
\* also when a later step puts the old value back
ClampAxis(o, d, max) ==
  LET o2 == ClampOrigin(o, max)
      maxAllowed == max - o2
      d1 == IF d > maxAllowed THEN maxAllowed ELSE d
      d2 == FloorRaise(d1)
      d3 == IF o2 + d2 > max THEN max - o2 ELSE d2
  IN  [o |-> o2, d |-> d3,
       modified |-> (o2 # o \/ d > maxAllowed \/ d1 < MIN_SIZE
                       \/ o2 + d2 > max)]

validateAndClampBounds(maxX, maxY, x, y, w, h) ==
  LET ax == ClampAxis(x, w, maxX)
      ay == ClampAxis(y, h, maxY)
  IN  [x |-> ax.o, y |-> ay.o, w |-> ax.d, h |-> ay.d,
       modified |-> (ax.modified \/ ay.modified)]

(***************************************************************************)
(* Bytes and Arduino String helpers.  A byte is a one-character string;    *)
(* control bytes are named: ETX (3, Ctrl-C), ESC (27), NL, CR, TAB, VT     *)
(* (11), FF (12).  A String is a tuple of bytes, indexed from 0 as in the  *)
(* source.                                                                 *)
(***************************************************************************)
\* isspace() of the C locale, which String::trim and atol use: blank,
\* \t, \n, \v, \f, \r
IsSpace(c) == c \in {" ", "NL", "CR", "TAB", "VT", "FF"}

IsDigit(c) == c \in {"0", "1", "2", "3", "4", "5", "6", "7", "8", "9"}

DigitVal(c) ==
  CASE c = "0" -> 0 [] c = "1" -> 1 [] c = "2" -> 2 [] c = "3" -> 3
    [] c = "4" -> 4 [] c = "5" -> 5 [] c = "6" -> 6 [] c = "7" -> 7
    [] c = "8" -> 8 [] c = "9" -> 9

ToLowerChar(c) ==
  CASE c = "A" -> "a" [] c = "B" -> "b" [] c = "C" -> "c" [] c = "D" -> "d"
    [] c = "E" -> "e" [] c = "F" -> "f" [] c = "G" -> "g" [] c = "H" -> "h"
    [] c = "I" -> "i" [] c = "J" -> "j" [] c = "K" -> "k" [] c = "L" -> "l"
    [] c = "M" -> "m" [] c = "N" -> "n" [] c = "O" -> "o" [] c = "P" -> "p"
    [] c = "Q" -> "q" [] c = "R" -> "r" [] c = "S" -> "s" [] c = "T" -> "t"
    [] c = "U" -> "u" [] c = "V" -> "v" [] c = "W" -> "w" [] c = "X" -> "x"
    [] c = "Y" -> "y" [] c = "Z" -> "z" [] OTHER -> c

ToLowerCase(str) == [i \in 1..Len(str) |-> ToLowerChar(str[i])]

RECURSIVE TrimLeft(_)
TrimLeft(str) ==
  IF str # <<>> /\ IsSpace(Head(str)) THEN TrimLeft(Tail(str)) ELSE str

RECURSIVE TrimRight(_)
TrimRight(str) ==
  IF str # <<>> /\ IsSpace(str[Len(str)])
    THEN TrimRight(SubSeq(str, 1, Len(str) - 1))
    ELSE str

Trim(str) == TrimRight(TrimLeft(str))

\* String::indexOf(ch, fromIndex): 0-based position of ch at or after
\* fromIndex, -1 when there is none or fromIndex is past the end
IndexOf(str, ch, from) ==
  IF from >= Len(str) THEN -1
  ELSE LET hits == {i \in from..(Len(str) - 1) : str[i + 1] = ch}
       IN  IF hits = {} THEN -1
           ELSE CHOOSE i \in hits : \A j \in hits : i <= j

\* String::substring(left, right): bytes left..right-1 (0-based), ends
\* swapped when out of order and cut at the length
Substring(str, left, right) ==
  LET l == IF left > right THEN right ELSE left
      r0 == IF left > right THEN left ELSE right
      r == IF r0 > Len(str) THEN Len(str) ELSE r0
  IN  IF l >= Len(str) THEN <<>> ELSE SubSeq(str, l + 1, r)

SubstringFrom(str, left) == Substring(str, left, Len(str))

StartsWith(str, prefix) ==
  Len(str) >= Len(prefix) /\ SubSeq(str, 1, Len(prefix)) = prefix

\* String::toInt (atol) stored in an int: leading blanks, an optional
\* sign, then the longest run of digits; 0 when there is none.  atol
\* returns a long, of LONG_BITS bits on the platform the sketch is built
\* for: a number that does not fit the long yields the nearest limit of
\* long, and a long that does not fit the int keeps its low 32 bits.
RECURSIVE DigitRun(_)
DigitRun(str) ==
  IF str # <<>> /\ IsDigit(Head(str))
    THEN <<Head(str)>> \o DigitRun(Tail(str))
    ELSE <<>>

RECURSIVE StripZeros(_)
StripZeros(digits) ==
  IF digits # <<>> /\ Head(digits) = "0" THEN StripZeros(Tail(digits))
  ELSE digits

\* The digits read as a number with the sign reversed, stopping at limit
\* (INT_MIN, or -INT_MAX for a number without a minus sign)
RECURSIVE Saturating(_, _, _)
Saturating(digits, neg, limit) ==
  IF digits = <<>> THEN neg
  ELSE LET d == DigitVal(Head(digits))
       IN  IF neg < -214748364 \/ 10 * neg < limit + d
             THEN limit
             ELSE Saturating(Tail(digits), 10 * neg - d, limit)

\* atol with a long of 32 bits
Long32(negative, digits) ==
  IF negative THEN Saturating(digits, 0, INT_MIN)
  ELSE 0 - Saturating(digits, 0, 0 - INT_MAX)

\* The digits of 2^63 - 1, the largest long of 64 bits
LONG_MAX_DIGITS ==
  <<"9", "2", "2", "3", "3", "7", "2", "0", "3", "6", "8", "5", "4", "7", "7",
    "5", "8", "0", "7">>

\* a > b for two runs of digits of the same length
RECURSIVE DigitsGreater(_, _)
DigitsGreater(a, b) ==
  /\ a # <<>>
  /\ \/ DigitVal(Head(a)) > DigitVal(Head(b))
     \/ Head(a) = Head(b) /\ DigitsGreater(Tail(a), Tail(b))

Exceeds63(digits) ==
  LET z == StripZeros(digits)
  IN  Len(z) > 19 \/ (Len(z) = 19 /\ DigitsGreater(z, LONG_MAX_DIGITS))

\* The low 32 bits of the number the digits spell, as two halves of 16
RECURSIVE Low32(_, _, _)
Low32(digits, hi, lo) ==
  IF digits = <<>> THEN <<hi, lo>>
  ELSE LET l == 10 * lo + DigitVal(Head(digits))
           h == 10 * hi + (l \div 65536)
       IN  Low32(Tail(digits), h % 65536, l % 65536)

AsInt(halves) ==
  IF halves[1] >= 32768
    THEN (halves[1] - 65536) * 65536 + halves[2]
    ELSE halves[1] * 65536 + halves[2]

\* atol with a long of 64 bits, converted to int
Long64(negative, digits) ==
  IF Exceeds63(digits) THEN (IF negative THEN 0 ELSE -1)
  ELSE IF negative THEN IntNeg(AsInt(Low32(digits, 0, 0)))
  ELSE AsInt(Low32(digits, 0, 0))

ToInt(str) ==
  LET t == TrimLeft(str)
      signed == t # <<>> /\ Head(t) \in {"-", "+"}
      negative == t # <<>> /\ Head(t) = "-"
      digits == DigitRun(IF signed THEN Tail(t) ELSE t)
  IN  IF LONG_BITS = 32 THEN Long32(negative, digits)
      ELSE Long64(negative, digits)

(***************************************************************************)
(* The session: the sketch's globals, the receive buffer and the position  *)
(* of the single thread, as one record the handlers transform.             *)
(***************************************************************************)
\* C integer division truncates towards zero
CDiv(a, b) ==
  IF a >= 0 THEN a \div b
  ELSE LET m == 0 - (a + 1)
       IN  0 - ((m \div b) + (IF m % b = b - 1 THEN 1 ELSE 0))

Emit(s, m) == [s EXCEPT !.out = Append(@, m)]

\* setRotation as it would be if it left the bounds alone
setRotationKeepsBounds(s, rotation) ==
  IF rotation >= 0 /\ rotation <= 3
    THEN [s EXCEPT !.currentRotation = rotation, !.tftRotation = rotation]
    ELSE Emit(s, [tag |-> "INVALID_ROTATION"])

\* setRotation as it would be without its call of tft.setRotation
setRotationDriverNotTold(s, rotation) ==
  IF rotation >= 0 /\ rotation <= 3
    THEN [s EXCEPT !.currentRotation = rotation,
                   !.usableOriginX = 0, !.usableOriginY = 0,
                   !.usableWidth = 0, !.usableHeight = 0]
    ELSE Emit(s, [tag |-> "INVALID_ROTATION"])

setRotation(s, rotation) ==
  IF rotation >= 0 /\ rotation <= 3
    THEN [s EXCEPT !.currentRotation = rotation,
                   !.tftRotation = rotation,
                   !.usableOriginX = 0, !.usableOriginY = 0,
                   !.usableWidth = 0, !.usableHeight = 0]
    ELSE Emit(s, [tag |-> "INVALID_ROTATION"])

\* drawFrame: with bounds set it only draws; otherwise it steps through
\* three insets, blocking on a keypress after each of the first three
drawFrame(s) ==
  IF s.usableWidth > 0 /\ s.usableHeight > 0
    THEN s
    ELSE [s EXCEPT !.job = <<"wait", "wait", "wait">> \o @]

drawUsableCenter(s) ==
  LET t == IF s.usableWidth = 0 \/ s.usableHeight = 0
             THEN [s EXCEPT !.usableOriginX = 1, !.usableOriginY = 2,
                            !.usableWidth = TftWidth(s.tftRotation) - 2,
                            !.usableHeight = TftHeight(s.tftRotation) - 3]
             ELSE s
  IN  Emit(t, [tag |-> "CENTER",
               centerX |-> IntAdd(t.usableOriginX, CDiv(t.usableWidth, 2)),
               centerY |-> IntAdd(t.usableOriginY, CDiv(t.usableHeight, 2))])

setUsableBounds(s, left, right, top, bottom) ==
  [s EXCEPT !.usableOriginX = left, !.usableOriginY = top,
            !.usableWidth = IntAdd(IntSub(right, left), 1),
            !.usableHeight = IntAdd(IntSub(bottom, top), 1)]

OrientationSwapped(rot) ==
  IF rot = 0 THEN "portrait"
  ELSE IF rot = 1 THEN "landscape"
  ELSE IF rot = 2 THEN "reverse_landscape"
  ELSE IF rot = 3 THEN "reverse_portrait"
  ELSE "landscape"

Orientation(rot) ==
  IF rot = 0 THEN "portrait"
  ELSE IF rot = 1 THEN "landscape"
  ELSE IF rot = 2 THEN "reverse_portrait"
  ELSE IF rot = 3 THEN "reverse_landscape"
  ELSE "landscape"

exportConfigBothZero(s) ==
  IF s.usableWidth = 0 /\ s.usableHeight = 0
    THEN Emit(s, [tag |-> "ERR_BOUNDS_NOT_SET"])
    ELSE Emit(s, [tag |-> "CONFIG",
                  name |-> s.currentDisplayName,
                  published_resolution |-> <<PUBLISHED_WIDTH, PUBLISHED_HEIGHT>>,
                  orientation |-> Orientation(s.currentRotation),
                  left |-> s.usableOriginX,
                  right |-> IntSub(IntAdd(s.usableOriginX, s.usableWidth), 1),
                  top |-> s.usableOriginY,
                  bottom |-> IntSub(IntAdd(s.usableOriginY, s.usableHeight), 1),
                  center |-> <<IntAdd(s.usableOriginX, CDiv(s.usableWidth, 2)),
                               IntAdd(s.usableOriginY, CDiv(s.usableHeight, 2))>>])

exportConfig(s) ==
  IF s.usableWidth = 0 \/ s.usableHeight = 0
    THEN Emit(s, [tag |-> "ERR_BOUNDS_NOT_SET"])
    ELSE Emit(s, [tag |-> "CONFIG",
                  name |-> s.currentDisplayName,
                  published_resolution |-> <<PUBLISHED_WIDTH, PUBLISHED_HEIGHT>>,
                  orientation |-> Orientation(s.currentRotation),
                  left |-> s.usableOriginX,
                  right |-> IntSub(IntAdd(s.usableOriginX, s.usableWidth), 1),
                  top |-> s.usableOriginY,
                  bottom |-> IntSub(IntAdd(s.usableOriginY, s.usableHeight), 1),
                  center |-> <<IntAdd(s.usableOriginX, CDiv(s.usableWidth, 2)),
                               IntAdd(s.usableOriginY, CDiv(s.usableHeight, 2))>>])

markModifiedSkipped(s) == s

markModified(s) == [s EXCEPT !.hasUnsavedChanges = TRUE]

saveAndExitHalts(s) ==
  LET e == exportConfig(s)
  IN  Emit([e EXCEPT !.hasUnsavedChanges = FALSE,
                     !.hasEverSaved = TRUE,
                     !.lastSavedState =
                        [rotation |-> e.currentRotation,
                         usableOriginX |-> e.usableOriginX,
                         usableOriginY |-> e.usableOriginY,
                         usableWidth |-> e.usableWidth,
                         usableHeight |-> e.usableHeight,
                         frameThickness |-> e.frameThickness],
                     !.pc = "halted", !.job = <<>>],
           [tag |-> "SAVED"])

saveAndExit(s) ==
  LET e == exportConfig(s)
  IN  Emit([e EXCEPT !.hasUnsavedChanges = FALSE,
                     !.hasEverSaved = TRUE,
                     !.lastSavedState =
                        [rotation |-> e.currentRotation,
                         usableOriginX |-> e.usableOriginX,
                         usableOriginY |-> e.usableOriginY,
                         usableWidth |-> e.usableWidth,
                         usableHeight |-> e.usableHeight,
                         frameThickness |-> e.frameThickness]],
           [tag |-> "SAVED"])

\* The infinite delay loop that ends exitWithoutSaving
Halt(s) == Emit([s EXCEPT !.pc = "halted", !.job = <<>>], [tag |-> "GOODBYE"])

\* checkUnsavedChanges from its read on, and what exitWithoutSaving does
\* with the answer: the first waiting byte is the response, the rest of
\* the buffer is thrown away
confirmResponseAnyKey(s) ==
  LET response == Head(s.rx)
      t == [s EXCEPT !.rx = <<>>, !.pc = "loop"]
  IN  IF response # "ESC"
        THEN Halt(t)
        ELSE Emit([t EXCEPT !.currentMode = MODE_NONE],
                  [tag |-> "EXIT_CANCELLED"])

confirmResponse(s) ==
  LET response == Head(s.rx)
      t == [s EXCEPT !.rx = <<>>, !.pc = "loop"]
  IN  IF response = "y" \/ response = "Y"
        THEN Halt(t)
        ELSE Emit([t EXCEPT !.currentMode = MODE_NONE],
                  [tag |-> "EXIT_CANCELLED"])

exitWithoutSavingAlwaysAsks(s) ==
  Emit([s EXCEPT !.pc = "confirm"], [tag |-> "UNSAVED_WARNING"])

\* With unsaved changes the handler stops in checkUnsavedChanges, at the
\* loop that waits for the response byte
exitWithoutSaving(s) ==
  IF s.hasUnsavedChanges
    THEN Emit([s EXCEPT !.pc = "confirm"], [tag |-> "UNSAVED_WARNING"])
    ELSE Halt(s)

setModeRestores(s, mode) ==
  IF mode >= 1 /\ mode <= 6
    THEN LET t == [s EXCEPT !.currentMode = mode - 1]
         IN  IF t.currentMode = MODE_SAVE_EXIT
               THEN [saveAndExit(t) EXCEPT !.currentMode = s.currentMode]
             ELSE IF t.currentMode = MODE_EXIT_NO_SAVE THEN exitWithoutSaving(t)
             ELSE t
    ELSE s

setModeNoOffset(s, mode) ==
  IF mode >= 1 /\ mode <= 6
    THEN LET t == [s EXCEPT !.currentMode = mode]
         IN  IF t.currentMode = MODE_SAVE_EXIT THEN saveAndExit(t)
             ELSE IF t.currentMode = MODE_EXIT_NO_SAVE THEN exitWithoutSaving(t)
             ELSE t
    ELSE s

setMode(s, mode) ==
  IF mode >= 1 /\ mode <= 6
    THEN LET t == [s EXCEPT !.currentMode = mode - 1]
         IN  IF t.currentMode = MODE_SAVE_EXIT THEN saveAndExit(t)
             ELSE IF t.currentMode = MODE_EXIT_NO_SAVE THEN exitWithoutSaving(t)
             ELSE t
    ELSE s

handleEscapeKeySavesInMode(s) ==
  IF s.currentMode >= MODE_EDGE_ADJUST /\ s.currentMode <= MODE_ROTATION
    THEN saveAndExit([s EXCEPT !.currentMode = MODE_NONE])
  ELSE IF s.currentMode = MODE_NONE
    THEN saveAndExit(s)
  ELSE s

handleEscapeKey(s) ==
  IF s.currentMode >= MODE_EDGE_ADJUST /\ s.currentMode <= MODE_ROTATION
    THEN [s EXCEPT !.currentMode = MODE_NONE]
  ELSE IF s.currentMode = MODE_NONE
    THEN saveAndExit(s)
  ELSE s

\* validateAndClampBounds applied to the globals
clampBounds(s) ==
  LET c == validateAndClampBounds(TftWidth(s.tftRotation),
                                  TftHeight(s.tftRotation),
                                  s.usableOriginX, s.usableOriginY,
                                  s.usableWidth, s.usableHeight)
      t == [s EXCEPT !.usableOriginX = c.x, !.usableOriginY = c.y,
                     !.usableWidth = c.w, !.usableHeight = c.h]
  IN  IF c.modified THEN Emit(t, [tag |-> "CLAMP_WARNING"]) ELSE t

redrawFrame(s) == drawFrame(clampBounds(s))

(***************************************************************************)
(* Edit operations                                                         *)
(***************************************************************************)
EdgeMovedNaive(s, direction) ==
  LET maxX == TftWidth(s.tftRotation)
      maxY == TftHeight(s.tftRotation)
      x == s.usableOriginX
      y == s.usableOriginY
      w == s.usableWidth
      h == s.usableHeight
  IN  CASE direction = "U" /\ y > 0 /\ y - 1 >= 0 ->
             [x |-> x, y |-> y - 1, w |-> w,
              h |-> IF (y - 1) + (h + 1) > maxY THEN maxY - (y - 1) ELSE h + 1,
              changed |-> TRUE]
        [] direction = "D" /\ h > MIN_SIZE /\ y + 1 < maxY ->
             [x |-> x, y |-> y, w |-> w, h |-> h - 1, changed |-> TRUE]
        [] direction = "L" /\ x > 0 /\ x - 1 >= 0 ->
             [x |-> x - 1, y |-> y,
              w |-> IF (x - 1) + (w + 1) > maxX THEN maxX - (x - 1) ELSE w + 1,
              h |-> h, changed |-> TRUE]
        [] direction = "R" /\ w > MIN_SIZE /\ x + 1 < maxX ->
             [x |-> x, y |-> y, w |-> w - 1, h |-> h, changed |-> TRUE]
        [] OTHER -> [x |-> x, y |-> y, w |-> w, h |-> h, changed |-> FALSE]

EdgeMovedNoGrow(s, direction) ==
  LET maxX == TftWidth(s.tftRotation)
      maxY == TftHeight(s.tftRotation)
      x == s.usableOriginX
      y == s.usableOriginY
      w == s.usableWidth
      h == s.usableHeight
  IN  CASE direction = "U" /\ y > 0 /\ y - 1 >= 0 ->
             [x |-> x, y |-> y - 1, w |-> w,
              h |-> h,
              changed |-> TRUE]
        [] direction = "D" /\ h > MIN_SIZE /\ y + 1 < maxY ->
             [x |-> x, y |-> y + 1, w |-> w, h |-> h - 1, changed |-> TRUE]
        [] direction = "L" /\ x > 0 /\ x - 1 >= 0 ->
             [x |-> x - 1, y |-> y,
              w |-> w,
              h |-> h, changed |-> TRUE]
        [] direction = "R" /\ w > MIN_SIZE /\ x + 1 < maxX ->
             [x |-> x + 1, y |-> y, w |-> w - 1, h |-> h, changed |-> TRUE]
        [] OTHER -> [x |-> x, y |-> y, w |-> w, h |-> h, changed |-> FALSE]

EdgeMovedBelowMin(s, direction) ==
  LET maxX == TftWidth(s.tftRotation)
      maxY == TftHeight(s.tftRotation)
      x == s.usableOriginX
      y == s.usableOriginY
      w == s.usableWidth
      h == s.usableHeight
  IN  CASE direction = "U" /\ y > 0 /\ y - 1 >= 0 ->
             [x |-> x, y |-> y - 1, w |-> w,
              h |-> IF (y - 1) + (h + 1) > maxY THEN maxY - (y - 1) ELSE h + 1,
              changed |-> TRUE]
        [] direction = "D" /\ h >= MIN_SIZE /\ y + 1 < maxY ->
             [x |-> x, y |-> y + 1, w |-> w, h |-> h - 1, changed |-> TRUE]
        [] direction = "L" /\ x > 0 /\ x - 1 >= 0 ->
             [x |-> x - 1, y |-> y,
              w |-> IF (x - 1) + (w + 1) > maxX THEN maxX - (x - 1) ELSE w + 1,
              h |-> h, changed |-> TRUE]
        [] direction = "R" /\ w >= MIN_SIZE /\ x + 1 < maxX ->
             [x |-> x + 1, y |-> y, w |-> w - 1, h |-> h, changed |-> TRUE]
        [] OTHER -> [x |-> x, y |-> y, w |-> w, h |-> h, changed |-> FALSE]

EdgeMoved(s, direction) ==
  LET maxX == TftWidth(s.tftRotation)
      maxY == TftHeight(s.tftRotation)
      x == s.usableOriginX
      y == s.usableOriginY
      w == s.usableWidth
      h == s.usableHeight
  IN  CASE direction = "U" /\ y > 0 /\ y - 1 >= 0 ->
             [x |-> x, y |-> y - 1, w |-> w,
              h |-> IF IntAdd(y - 1, IntAdd(h, 1)) > maxY
                      THEN maxY - (y - 1) ELSE IntAdd(h, 1),
              changed |-> TRUE]
        [] direction = "D" /\ h > MIN_SIZE /\ IntAdd(y, 1) < maxY ->
             [x |-> x, y |-> IntAdd(y, 1), w |-> w, h |-> h - 1,
              changed |-> TRUE]
        [] direction = "L" /\ x > 0 /\ x - 1 >= 0 ->
             [x |-> x - 1, y |-> y,
              w |-> IF IntAdd(x - 1, IntAdd(w, 1)) > maxX
                      THEN maxX - (x - 1) ELSE IntAdd(w, 1),
              h |-> h, changed |-> TRUE]
        [] direction = "R" /\ w > MIN_SIZE /\ IntAdd(x, 1) < maxX ->
             [x |-> IntAdd(x, 1), y |-> y, w |-> w - 1, h |-> h,
              changed |-> TRUE]
        [] OTHER -> [x |-> x, y |-> y, w |-> w, h |-> h, changed |-> FALSE]

\* adjustEdge as it would be if it stored the new origin and not the
\* new size
adjustEdgeOriginOnly(s, direction) ==
  IF s.usableWidth = 0 \/ s.usableHeight = 0
    THEN Emit(s, [tag |-> "ERR_SET_BOUNDS_FIRST"])
    ELSE LET m == EdgeMoved(s, direction)
             t == [s EXCEPT !.usableOriginX = m.x, !.usableOriginY = m.y]
         IN  IF m.changed
               THEN Emit(redrawFrame(markModified(clampBounds(t))),
                         [tag |-> "EDGE_ADJUSTED"])
               ELSE t

adjustEdge(s, direction) ==
  IF s.usableWidth = 0 \/ s.usableHeight = 0
    THEN Emit(s, [tag |-> "ERR_SET_BOUNDS_FIRST"])
    ELSE LET m == EdgeMoved(s, direction)
             t == [s EXCEPT !.usableOriginX = m.x, !.usableOriginY = m.y,
                            !.usableWidth = m.w, !.usableHeight = m.h]
         IN  IF m.changed
               THEN Emit(redrawFrame(markModified(clampBounds(t))),
                         [tag |-> "EDGE_ADJUSTED"])
               ELSE t

FrameMovedNoEdgeCheck(s, direction) ==
  LET maxX == TftWidth(s.tftRotation)
      maxY == TftHeight(s.tftRotation)
      x == s.usableOriginX
      y == s.usableOriginY
  IN  CASE direction = "U" /\ y > 0 -> [x |-> x, y |-> y - 1, changed |-> TRUE]
        [] direction = "D" ->
             [x |-> x, y |-> y + 1, changed |-> TRUE]
        [] direction = "L" /\ x > 0 -> [x |-> x - 1, y |-> y, changed |-> TRUE]
        [] direction = "R" ->
             [x |-> x + 1, y |-> y, changed |-> TRUE]
        [] OTHER -> [x |-> x, y |-> y, changed |-> FALSE]

FrameMoved(s, direction) ==
  LET maxX == TftWidth(s.tftRotation)
      maxY == TftHeight(s.tftRotation)
      x == s.usableOriginX
      y == s.usableOriginY
  IN  CASE direction = "U" /\ y > 0 -> [x |-> x, y |-> y - 1, changed |-> TRUE]
        [] direction = "D" /\ IntAdd(y, s.usableHeight) < maxY ->
             [x |-> x, y |-> IntAdd(y, 1), changed |-> TRUE]
        [] direction = "L" /\ x > 0 -> [x |-> x - 1, y |-> y, changed |-> TRUE]
        [] direction = "R" /\ IntAdd(x, s.usableWidth) < maxX ->
             [x |-> IntAdd(x, 1), y |-> y, changed |-> TRUE]
        [] OTHER -> [x |-> x, y |-> y, changed |-> FALSE]

moveFrame(s, direction) ==
  IF s.usableWidth = 0 \/ s.usableHeight = 0
    THEN Emit(s, [tag |-> "ERR_SET_BOUNDS_FIRST"])
    ELSE LET m == FrameMoved(s, direction)
             t == [s EXCEPT !.usableOriginX = m.x, !.usableOriginY = m.y]
         IN  IF m.changed
               THEN Emit(redrawFrame(markModified(clampBounds(t))),
                         [tag |-> "FRAME_MOVED"])
               ELSE t

adjustThicknessNoLimit(s, direction) ==
  IF direction = "U"
    THEN Emit(redrawFrame(markModified(
                [s EXCEPT !.frameThickness = @ + 1])),
              [tag |-> "THICKNESS"])
  ELSE IF direction = "D" /\ s.frameThickness > 1
    THEN Emit(redrawFrame(markModified(
                [s EXCEPT !.frameThickness = @ - 1])),
              [tag |-> "THICKNESS"])
  ELSE s

adjustThickness(s, direction) ==
  IF direction = "U" /\ s.frameThickness < MAX_THICKNESS
    THEN Emit(redrawFrame(markModified(
                [s EXCEPT !.frameThickness = @ + 1])),
              [tag |-> "THICKNESS"])
  ELSE IF direction = "D" /\ s.frameThickness > 1
    THEN Emit(redrawFrame(markModified(
                [s EXCEPT !.frameThickness = @ - 1])),
              [tag |-> "THICKNESS"])
  ELSE s

rotateDisplayKeepsBounds(s, direction) ==
  LET r == IF direction = "L" THEN (s.currentRotation + 3) % 4
           ELSE IF direction = "R" THEN (s.currentRotation + 1) % 4
           ELSE s.currentRotation
  IN  Emit(markModified([s EXCEPT !.currentRotation = r]),
           [tag |-> "ROTATION"])

rotateDisplaySameWay(s, direction) ==
  LET r == IF direction = "L" THEN (s.currentRotation + 1) % 4
           ELSE IF direction = "R" THEN (s.currentRotation + 1) % 4
           ELSE s.currentRotation
  IN  Emit(markModified(setRotation([s EXCEPT !.currentRotation = r], r)),
           [tag |-> "ROTATION"])

rotateDisplay(s, direction) ==
  LET r == IF direction = "L" THEN (s.currentRotation + 3) % 4
           ELSE IF direction = "R" THEN (s.currentRotation + 1) % 4
           ELSE s.currentRotation
  IN  Emit(markModified(setRotation([s EXCEPT !.currentRotation = r], r)),
           [tag |-> "ROTATION"])

handleArrowKey(s, key) ==
  CASE s.currentMode = MODE_EDGE_ADJUST -> adjustEdge(s, key)
    [] s.currentMode = MODE_FRAME_MOVE -> moveFrame(s, key)
    [] s.currentMode = MODE_THICKNESS -> adjustThickness(s, key)
    [] s.currentMode = MODE_ROTATION -> rotateDisplay(s, key)
    [] s.currentMode = MODE_SAVE_EXIT \/ s.currentMode = MODE_EXIT_NO_SAVE ->
         Emit(s, [tag |-> "ARROW_IGNORED"])
    [] OTHER -> s

(***************************************************************************)
(* Legacy text commands                                                    *)
(***************************************************************************)
\* runCalibrationTest as the list of its steps: every waitForKeypress is
\* a "wait", between them the four rotations, then the frame and centre
TestScript ==
  <<"wait", "wait", "rot0", "wait", "rot1", "wait", "rot2", "wait",
    "rot3", "wait", "frame", "center">>

boundsCommandEmptyFirst(s, params) ==
  LET commaPos1 == IndexOf(params, ",", 0)
      commaPos2 == IndexOf(params, ",", commaPos1 + 1)
      commaPos3 == IndexOf(params, ",", commaPos2 + 1)
  IN  IF commaPos1 >= 0 /\ commaPos2 > 0 /\ commaPos3 > 0
        THEN setUsableBounds(s,
               ToInt(Substring(params, 0, commaPos1)),
               ToInt(Substring(params, commaPos1 + 1, commaPos2)),
               ToInt(Substring(params, commaPos2 + 1, commaPos3)),
               ToInt(SubstringFrom(params, commaPos3 + 1)))
        ELSE Emit(s, [tag |-> "ERR_BOUNDS_FORMAT"])

boundsCommand(s, params) ==
  LET commaPos1 == IndexOf(params, ",", 0)
      commaPos2 == IndexOf(params, ",", commaPos1 + 1)
      commaPos3 == IndexOf(params, ",", commaPos2 + 1)
  IN  IF commaPos1 > 0 /\ commaPos2 > 0 /\ commaPos3 > 0
        THEN setUsableBounds(s,
               ToInt(Substring(params, 0, commaPos1)),
               ToInt(Substring(params, commaPos1 + 1, commaPos2)),
               ToInt(Substring(params, commaPos2 + 1, commaPos3)),
               ToInt(SubstringFrom(params, commaPos3 + 1)))
        ELSE Emit(s, [tag |-> "ERR_BOUNDS_FORMAT"])

processCommand(s, line) ==
  LET command == Trim(line)
      commandLower == ToLowerCase(command)
  IN  CASE commandLower = <<"r", "o", "t", "0">> -> setRotation(s, 0)
        [] commandLower = <<"r", "o", "t", "1">> -> setRotation(s, 1)
        [] commandLower = <<"r", "o", "t", "2">> -> setRotation(s, 2)
        [] commandLower = <<"r", "o", "t", "3">> -> setRotation(s, 3)
        [] commandLower = <<"f", "r", "a", "m", "e">> -> drawFrame(s)
        [] commandLower = <<"c", "l", "e", "a", "r">> -> s
        [] commandLower = <<"c", "r", "o", "s", "s">> -> s
        [] commandLower = <<"t", "e", "s", "t">> ->
             [s EXCEPT !.job = TestScript \o @]
        [] commandLower = <<"c", "e", "n", "t", "e", "r">> ->
             drawUsableCenter(s)
        [] StartsWith(commandLower, <<"b", "o", "u", "n", "d", "s", " ">>) ->
             boundsCommand(s, SubstringFrom(command, 7))
        [] commandLower = <<"e", "x", "p", "o", "r", "t">> -> exportConfig(s)
        [] commandLower = <<"i", "n", "f", "o">> -> Emit(s, [tag |-> "INFO"])
        [] commandLower = <<"h", "e", "l", "p">> -> Emit(s, [tag |-> "HELP"])
        [] OTHER -> IF Len(command) > 0
                      THEN Emit(s, [tag |-> "UNKNOWN_COMMAND"])
                      ELSE s

(***************************************************************************)
(* Blocking steps of a command: the steps still to run are in job; a       *)
(* "wait" is waitForKeypress, which first discards whatever is buffered    *)
(* and then blocks until a byte arrives.                                   *)
(***************************************************************************)
Exec(s, op) ==
  CASE op = "rot0" -> setRotation(s, 0)
    [] op = "rot1" -> setRotation(s, 1)
    [] op = "rot2" -> setRotation(s, 2)
    [] op = "rot3" -> setRotation(s, 3)
    [] op = "frame" -> drawFrame(s)
    [] op = "center" -> drawUsableCenter(s)
    [] OTHER -> s

RECURSIVE Run(_)
Run(s) ==
  IF s.pc # "loop" \/ s.job = <<>> THEN s
  ELSE LET op == Head(s.job)
           t == [s EXCEPT !.job = Tail(@)]
       IN  IF op = "wait"
             THEN [t EXCEPT !.pc = "keypress", !.rx = <<>>]
             ELSE Run(Exec(t, op))

(***************************************************************************)
(* Input decoder of loop(): the semantic unit at the head of the receive   *)
(* buffer and the number of bytes it consumes.                             *)
(***************************************************************************)
\* Stream::readStringUntil('\n') on the bytes already received: up to the
\* first NL, which is consumed but not returned, or everything on timeout
ReadUntilNL(buf) ==
  LET p == IndexOf(buf, "NL", 0)
  IN  IF p < 0 THEN [text |-> buf, used |-> Len(buf)]
      ELSE [text |-> SubSeq(buf, 1, p), used |-> p + 1]

ArrowDirectionSwapped(code) ==
  CASE code = "A" -> <<"U">> [] code = "B" -> <<"D">>
    [] code = "C" -> <<"L">> [] code = "D" -> <<"R">>
    [] OTHER -> <<>>

ArrowDirection(code) ==
  CASE code = "A" -> <<"U">> [] code = "B" -> <<"D">>
    [] code = "C" -> <<"R">> [] code = "D" -> <<"L">>
    [] OTHER -> <<>>

Decode(buf) ==
  LET c == Head(buf)
      rest == Tail(buf)
  IN  IF c = "ETX" THEN [kind |-> "Cancel", arg |-> <<>>, used |-> 1]
      ELSE IF c = "ESC" THEN
        IF rest # <<>> /\ Head(rest) = "["
          THEN IF Len(rest) >= 2
                 THEN IF ArrowDirection(rest[2]) # <<>>
                        THEN [kind |-> "Arrow", arg |-> ArrowDirection(rest[2]),
                              used |-> 3]
                        ELSE [kind |-> "Dropped", arg |-> <<>>, used |-> 3]
                 ELSE [kind |-> "Dropped", arg |-> <<>>, used |-> 2]
          ELSE [kind |-> "PlainEscape", arg |-> <<>>, used |-> 1]
      ELSE IF c \in {"1", "2", "3", "4", "5", "6"}
        THEN [kind |-> "ModeSelect", arg |-> <<c>>, used |-> 1]
      ELSE IF c = "NL" \/ c = "CR"
        THEN [kind |-> "Newline", arg |-> <<>>, used |-> 1]
      ELSE LET r == ReadUntilNL(rest)
           IN  [kind |-> "LegacyLine", arg |-> <<c>> \o r.text,
                used |-> 1 + r.used]

loopCancelByMode(s) ==
  LET ev == Decode(s.rx)
      t == [s EXCEPT !.rx = SubSeq(@, ev.used + 1, Len(@)), !.out = <<>>]
  IN  Run(CASE ev.kind = "Cancel" -> handleEscapeKey(t)
            [] ev.kind = "Arrow" -> handleArrowKey(t, ev.arg[1])
            [] ev.kind = "PlainEscape" -> handleEscapeKey(t)
            [] ev.kind = "ModeSelect" -> setMode(t, DigitVal(ev.arg[1]))
            [] ev.kind = "LegacyLine" -> processCommand(t, ev.arg)
            [] OTHER -> t)

\* One iteration of loop() with bytes available
loop(s) ==
  LET ev == Decode(s.rx)
      t == [s EXCEPT !.rx = SubSeq(@, ev.used + 1, Len(@)), !.out = <<>>]
  IN  Run(CASE ev.kind = "Cancel" -> saveAndExit(t)
            [] ev.kind = "Arrow" -> handleArrowKey(t, ev.arg[1])
            [] ev.kind = "PlainEscape" -> handleEscapeKey(t)
            [] ev.kind = "ModeSelect" -> setMode(t, DigitVal(ev.arg[1]))
            [] ev.kind = "LegacyLine" -> processCommand(t, ev.arg)
            [] OTHER -> t)

(***************************************************************************)
(* State after setup(): rotation 1, bounds from the published size         *)
(***************************************************************************)
initializeBoundsFromPublished(s) ==
  IF s.currentRotation = 1 \/ s.currentRotation = 3
    THEN [s EXCEPT !.usableOriginX = 0, !.usableOriginY = 0,
                   !.usableWidth = PUBLISHED_WIDTH,
                   !.usableHeight = PUBLISHED_HEIGHT]
    ELSE [s EXCEPT !.usableOriginX = 0, !.usableOriginY = 0,
                   !.usableWidth = PUBLISHED_HEIGHT,
                   !.usableHeight = PUBLISHED_WIDTH]

Globals ==
  [currentRotation |-> 1, usableOriginX |-> 0, usableOriginY |-> 0,
   usableWidth |-> 0, usableHeight |-> 0, frameThickness |-> 2,
   currentMode |-> MODE_NONE,
   lastSavedState |-> [rotation |-> 1, usableOriginX |-> 0,
                       usableOriginY |-> 0, usableWidth |-> 0,
                       usableHeight |-> 0, frameThickness |-> 2],
   hasUnsavedChanges |-> FALSE, hasEverSaved |-> FALSE,
   currentDisplayName |-> <<>>, configExists |-> FALSE, input |-> <<>>,
   rx |-> <<>>, pc |-> "choice", job |-> <<>>, out |-> <<>>,
   tftRotation |-> 1]

(***************************************************************************)
(* Display selection at the start of setup(): readSerialLine builds a      *)
(* line byte by byte in input; pc is the read that is waiting, "choice"    *)
(* for the menu option, "name1"/"name2" for the display name of option 1   *)
(* and of option 2.                                                        *)
(***************************************************************************)
ControlBytes == {"ETX", "ESC", "NL", "CR", "TAB", "VT", "FF", "BS", "DEL"}

\* Bytes 32..126
IsPrintable(c) == c \notin ControlBytes

\* One iteration of readSerialLine's loop on the byte c: the line is
\* returned at a line end only when it is not empty
readSerialLine(inp, c) ==
  IF c = "NL" \/ c = "CR"
    THEN [done |-> Len(inp) > 0, input |-> inp]
  ELSE IF IsPrintable(c)
    THEN [done |-> FALSE, input |-> Append(inp, c)]
  ELSE IF c = "BS" \/ c = "DEL"
    THEN [done |-> FALSE,
          input |-> IF Len(inp) > 0 THEN SubSeq(inp, 1, Len(inp) - 1) ELSE inp]
  ELSE [done |-> FALSE, input |-> inp]

\* The infinite delay loops of the display selection
BootHalt(s, reason) == Emit([s EXCEPT !.pc = "halted"], [tag |-> reason])

\* setup() from the return of selectOrCreateDisplay on
setupAfterSelection(s) ==
  LET b == initializeBoundsFromPublished(s)
  IN  [b EXCEPT !.lastSavedState =
                   [rotation |-> b.currentRotation, usableOriginX |-> 0,
                    usableOriginY |-> 0, usableWidth |-> 0,
                    usableHeight |-> 0,
                    frameThickness |-> b.frameThickness],
                !.pc = "loop"]

nameEnteredNotStored(s, name) ==
  IF Len(name) = 0
    THEN BootHalt(s, "ERR_NAME_EMPTY")
    ELSE setupAfterSelection([s EXCEPT !.configExists = TRUE])

\* Option 1 and createNewDisplayConfig from the return of their
\* readSerialLine on
nameEntered(s, name) ==
  LET t == [s EXCEPT !.currentDisplayName = name]
  IN  IF Len(name) = 0
        THEN BootHalt(t, "ERR_NAME_EMPTY")
        ELSE setupAfterSelection([t EXCEPT !.configExists = TRUE])

\* selectOrCreateDisplay from the return of its first readSerialLine on
selectOrCreateDisplay(s, choice) ==
  IF choice = <<"1">> THEN [s EXCEPT !.pc = "name1"]
  ELSE IF choice = <<"2">> THEN [s EXCEPT !.pc = "name2"]
  ELSE IF choice = <<"3">> THEN BootHalt(s, "BOOT_EXIT")
  ELSE BootHalt(s, "BOOT_INVALID_CHOICE")

\* A byte arrives at the read that is waiting
bootByte(s, c) ==
  LET r == readSerialLine(s.input, c)
      t == [s EXCEPT !.input = <<>>]
  IN  IF ~r.done THEN [s EXCEPT !.input = r.input]
      ELSE IF s.pc = "choice" THEN selectOrCreateDisplay(t, r.input)
      ELSE nameEntered(t, r.input)

\* The display name of the sessions whose calibration is explored
DeviceName == <<"D">>

setup == nameEntered(Globals, DeviceName)

Cur ==
  [currentRotation |-> currentRotation, usableOriginX |-> usableOriginX,
   usableOriginY |-> usableOriginY, usableWidth |-> usableWidth,
   usableHeight |-> usableHeight, frameThickness |-> frameThickness,
   currentMode |-> currentMode, lastSavedState |-> lastSavedState,
   hasUnsavedChanges |-> hasUnsavedChanges, hasEverSaved |-> hasEverSaved,
   currentDisplayName |-> currentDisplayName, configExists |-> configExists,
   input |-> input, rx |-> rx, pc |-> pc, job |-> job, out |-> out,
   tftRotation |-> tftRotation]

Becomes(s) ==
  /\ currentRotation' = s.currentRotation
  /\ usableOriginX' = s.usableOriginX
  /\ usableOriginY' = s.usableOriginY
  /\ usableWidth' = s.usableWidth
  /\ usableHeight' = s.usableHeight
  /\ frameThickness' = s.frameThickness
  /\ currentMode' = s.currentMode
  /\ lastSavedState' = s.lastSavedState
  /\ hasUnsavedChanges' = s.hasUnsavedChanges
  /\ hasEverSaved' = s.hasEverSaved
  /\ currentDisplayName' = s.currentDisplayName
  /\ configExists' = s.configExists
  /\ input' = s.input
  /\ rx' = s.rx
  /\ pc' = s.pc
  /\ job' = s.job
  /\ out' = s.out
  /\ tftRotation' = s.tftRotation
  /\ UNCHANGED LONG_BITS
  /\ UNCHANGED managerVars

(***************************************************************************)
(* The display manager (DisplayManager.cpp): a registry of at most         *)
(* MAX_DISPLAYS display instances.  DisplayManager.h, which sets the       *)
(* capacity, is not among the sources: MAX_DISPLAYS is a variable that     *)
(* never changes, and a manager is explored with every value of it up to   *)
(* MaxCapacity.  A pointer is <<>> when null and <<a>> when it holds the   *)
(* address a.  DisplayConfig::name is a pointer to the caller's            *)
(* characters: DisplayInstance copies the pointer, and names are compared  *)
(* by the characters they point to.                                        *)
(***************************************************************************)
\* Where names live: four string literals and a character buffer of the
\* caller, which may hold the text of a literal or a text of its own
Literals == {"lit_empty", "lit_A", "lit_B", "lit_C"}

CharBuffers == {"buf"}

Addresses == Literals \cup CharBuffers

LiteralText(a) ==
  CASE a = "lit_empty" -> "" [] a = "lit_A" -> "A"
    [] a = "lit_B" -> "B" [] a = "lit_C" -> "C"

\* What the caller's buffer may hold
BufferTexts == {"A", "D"}

\* What operator new and the build make of an allocation: an instance;
\* a null pointer that the test after new catches; a null pointer whose
\* test the compiler removed, the constructor having written at address 0;
\* std::bad_alloc thrown out of addDisplay; or a fault at address 0
Allocations == {"instance", "null_tested", "null_untested", "bad_alloc",
                "fault"}

\* DisplayManager::DisplayManager(): no display, every slot null
DisplayManager ==
  [displays |-> [i \in 0..(MAX_DISPLAYS - 1) |-> <<>>],
   displayCount |-> 0]

\* The name of the instance in slot i, read through its pointer
getName(m, i) == m.buffers[m.displays[i][1].name[1]]

Rejected(m) ==
  [displays |-> m.displays, displayCount |-> m.displayCount,
   result |-> "false"]

\* addDisplay as it would be without the check for duplicate names
addDisplayNoDuplicateCheck(m, config, allocation) ==
  IF m.displayCount >= MAX_DISPLAYS
    THEN Rejected(m)
  ELSE IF config.name = <<>> \/ config.width = 0 \/ config.height = 0
    THEN Rejected(m)
  ELSE CASE allocation = "instance" ->
              [displays |-> [m.displays EXCEPT ![m.displayCount] = <<config>>],
               displayCount |-> (m.displayCount + 1) % 256,
               result |-> "true"]
         [] allocation = "null_tested" ->
              Rejected([m EXCEPT !.displays[m.displayCount] = <<>>])
         [] allocation = "null_untested" ->
              [displays |-> [m.displays EXCEPT ![m.displayCount] = <<>>],
               displayCount |-> (m.displayCount + 1) % 256,
               result |-> "true"]
         [] allocation = "bad_alloc" ->
              [displays |-> m.displays, displayCount |-> m.displayCount,
               result |-> "thrown"]
         [] allocation = "fault" ->
              [displays |-> m.displays, displayCount |-> m.displayCount,
               result |-> "crashed"]

\* DisplayManager::addDisplay on the manager m = [displays, displayCount,
\* buffers]; result is what the call returned, or how it ended without
\* returning
addDisplay(m, config, allocation) ==
  IF m.displayCount >= MAX_DISPLAYS
    THEN Rejected(m)
  ELSE IF config.name = <<>> \/ config.width = 0 \/ config.height = 0
    THEN Rejected(m)
  ELSE IF \E i \in 0..(m.displayCount - 1) :
            /\ m.displays[i] # <<>>
            /\ getName(m, i) = m.buffers[config.name[1]]
    THEN Rejected(m)
  ELSE CASE allocation = "instance" ->
              [displays |-> [m.displays EXCEPT ![m.displayCount] = <<config>>],
               displayCount |-> (m.displayCount + 1) % 256,
               result |-> "true"]
         [] allocation = "null_tested" ->
              Rejected([m EXCEPT !.displays[m.displayCount] = <<>>])
         [] allocation = "null_untested" ->
              [displays |-> [m.displays EXCEPT ![m.displayCount] = <<>>],
               displayCount |-> (m.displayCount + 1) % 256,
               result |-> "true"]
         [] allocation = "bad_alloc" ->
              [displays |-> m.displays, displayCount |-> m.displayCount,
               result |-> "thrown"]
         [] allocation = "fault" ->
              [displays |-> m.displays, displayCount |-> m.displayCount,
               result |-> "crashed"]

\* The memory of names: the literals hold their text and the buffer
\* holds the given text
NameMemory(text) ==
  [a \in Addresses |-> IF a \in Literals THEN LiteralText(a) ELSE text]

\* The manager as its constructor leaves it, before any call
ManagerConstructed ==
  /\ displays = DisplayManager.displays
  /\ displayCount = DisplayManager.displayCount
  /\ returned = "none"

\* The calibration sketch has no manager and no name buffer
NoManager ==
  /\ MAX_DISPLAYS = 1
  /\ ManagerConstructed
  /\ buffers = NameMemory("A")

NoEvent == [kind |-> "None", arg |-> <<>>]

Init ==
  /\ currentRotation = setup.currentRotation
  /\ usableOriginX = setup.usableOriginX
  /\ usableOriginY = setup.usableOriginY
  /\ usableWidth = setup.usableWidth
  /\ usableHeight = setup.usableHeight
  /\ frameThickness = setup.frameThickness
  /\ currentMode = setup.currentMode
  /\ lastSavedState = setup.lastSavedState
  /\ hasUnsavedChanges = setup.hasUnsavedChanges
  /\ hasEverSaved = setup.hasEverSaved
  /\ currentDisplayName = setup.currentDisplayName
  /\ configExists = setup.configExists
  /\ input = setup.input
  /\ rx = setup.rx
  /\ pc = setup.pc
  /\ job = setup.job
  /\ out = setup.out
  /\ tftRotation = setup.tftRotation
  /\ LONG_BITS = BOARD_LONG_BITS
  /\ lastEvent = NoEvent
  /\ nEvents = 0
  /\ nLines = 0
  /\ NoManager

(***************************************************************************)
(* What the operator sends: key presses and text lines, byte for byte      *)
(***************************************************************************)
ModeKeys == {<<"1">>, <<"2">>, <<"3">>, <<"4">>, <<"5">>, <<"6">>}

ArrowKeys ==
  {<<"ESC", "[", "A">>, <<"ESC", "[", "B">>,
   <<"ESC", "[", "C">>, <<"ESC", "[", "D">>}

EscapeKeys ==
  {<<"ESC">>, <<"ESC", "[", "Z">>, <<"ESC", "[">>, <<"ESC", "1">>,
   <<"ETX">>, <<"6", "y">>}

CommandLines ==
  {<<"r", "o", "t", "0", "NL">>,
   <<"r", "o", "t", "1", "NL">>,
   <<"R", "o", "t", "2", "CR", "NL">>,
   <<"r", "o", "t", "3", "NL">>,
   <<"f", "r", "a", "m", "e", "NL">>,
   <<"c", "l", "e", "a", "r", "NL">>,
   <<"c", "r", "o", "s", "s", "NL">>,
   <<"t", "e", "s", "t", "NL">>,
   <<"c", "e", "n", "t", "e", "r", "NL">>,
   <<"e", "x", "p", "o", "r", "t", "NL">>,
   <<"FF", "i", "n", "f", "o", "VT", "NL">>,
   <<"h", "e", "l", "p", "NL">>,
   <<"f", "o", "o", "NL">>,
   <<"NL">>}

BoundsLines ==
  {<<"b", "o", "u", "n", "d", "s", " ", "1", ",", "FF", "1", "5", "8", ",", "VT", "2", ",", "1", "2", "7", "NL">>,
   <<"b", "o", "u", "n", "d", "s", " ", "0", ",", "1", "1", ",", "0", ",", "1", "1", "NL">>,
   <<"B", "O", "U", "N", "D", "S", " ", "0", ",", "2", "0", "0", ",", "0", ",", "2", "0", "0", "NL">>,
   <<"b", "o", "u", "n", "d", "s", " ", "1", "5", "5", ",", "1", "7", "0", ",", "0", ",", "5", "0", "NL">>,
   <<"b", "o", "u", "n", "d", "s", " ", "5", ",", "1", ",", "0", ",", "2", "0", "NL">>,
   <<"b", "o", "u", "n", "d", "s", " ", "0", ",", "-", "1", ",", "0", ",", "2", "0", "NL">>,
   <<"b", "o", "u", "n", "d", "s", " ", "-", "3", ",", "2", "0", ",", "0", ",", "2", "0", "NL">>,
   <<"b", "o", "u", "n", "d", "s", " ", "1", ",", "2", ",", "3", "NL">>,
   <<"b", "o", "u", "n", "d", "s", " ", "1", " ", "2", " ", "3", " ", "4", "NL">>,
   <<"b", "o", "u", "n", "d", "s", " ", ",", "1", ",", "2", ",", "3", "NL">>}

TextLines == CommandLines \cup BoundsLines

InputBursts == ModeKeys \cup ArrowKeys \cup EscapeKeys \cup CommandLines \cup BoundsLines

\* Answers to the exit confirmation
ConfirmBytes == {"y", "Y", "n", "ESC"}

(***************************************************************************)
(* Actions                                                                 *)
(***************************************************************************)
Step(s) ==
  /\ \E r \in {loop(s)} : Becomes(r)
  /\ \E ev \in {Decode(s.rx)} : lastEvent' = [kind |-> ev.kind, arg |-> ev.arg]

\* Bytes arrive while loop() is polling and the next iteration handles
\* the unit at their head
Input(burst) ==
  /\ pc = "loop"
  /\ rx = <<>>
  /\ nEvents < MaxEvents
  /\ burst \in TextLines => nLines < MaxLines
  /\ Step([Cur EXCEPT !.rx = burst])
  /\ nEvents' = nEvents + 1
  /\ nLines' = IF burst \in TextLines THEN nLines + 1 ELSE nLines

\* A later iteration of loop() handles bytes an earlier one left behind
Drain ==
  /\ pc = "loop"
  /\ rx # <<>>
  /\ Step(Cur)
  /\ UNCHANGED <<nEvents, nLines>>

\* checkUnsavedChanges reads the answer to the unsaved-changes warning:
\* a byte already buffered behind the "6", or else the next one to arrive
Confirm(response) ==
  /\ pc = "confirm"
  /\ rx # <<>> => response = Head(rx)
  /\ \E r \in {Run(confirmResponse([Cur EXCEPT
                          !.rx = IF rx # <<>> THEN rx ELSE <<response>>,
                          !.out = <<>>]))} : Becomes(r)
  /\ lastEvent' = [kind |-> "Confirm", arg |-> <<response>>]
  /\ UNCHANGED <<nEvents, nLines>>

\* The operator presses a key at a "press any key" prompt; readString
\* swallows it and the command goes on to its next step
Keypress ==
  /\ pc = "keypress"
  /\ \E r \in {Run([Cur EXCEPT !.rx = <<>>, !.pc = "loop", !.out = <<>>])} :
        Becomes(r)
  /\ lastEvent' = [kind |-> "Keypress", arg |-> <<>>]
  /\ UNCHANGED <<nEvents, nLines>>

Next ==
  \/ \E burst \in InputBursts : Input(burst)
  \/ Drain
  \/ \E response \in ConfirmBytes \cup {rx[i] : i \in DOMAIN rx} :
        Confirm(response)
  \/ Keypress

Spec == Init /\ [][Next]_vars

(***************************************************************************)
(* The interactive session alone: the operator uses only the keys (mode    *)
(* digits, arrows, escape, Ctrl-C) and never sends a legacy text line.     *)
(***************************************************************************)
KeyBursts == ModeKeys \cup ArrowKeys \cup EscapeKeys

NextKeys ==
  \/ \E burst \in KeyBursts : Input(burst)
  \/ Drain
  \/ \E response \in ConfirmBytes \cup {rx[i] : i \in DOMAIN rx} :
        Confirm(response)

SpecKeys == Init /\ [][NextKeys]_vars

(***************************************************************************)
(* The session from power-up: setup() stops in the display selection,      *)
(* which reads the menu option and the display name byte by byte; once     *)
(* setup() has returned, loop() handles the first key.                     *)
(***************************************************************************)
BootBytes == {"1", "2", "3", "a", " ", "NL", "CR", "BS", "ETX"}

InitBoot ==
  /\ currentRotation = Globals.currentRotation
  /\ usableOriginX = Globals.usableOriginX
  /\ usableOriginY = Globals.usableOriginY
  /\ usableWidth = Globals.usableWidth
  /\ usableHeight = Globals.usableHeight
  /\ frameThickness = Globals.frameThickness
  /\ currentMode = Globals.currentMode
  /\ lastSavedState = Globals.lastSavedState
  /\ hasUnsavedChanges = Globals.hasUnsavedChanges
  /\ hasEverSaved = Globals.hasEverSaved
  /\ currentDisplayName = Globals.currentDisplayName
  /\ configExists = Globals.configExists
  /\ input = Globals.input
  /\ rx = Globals.rx
  /\ pc = Globals.pc
  /\ job = Globals.job
  /\ out = Globals.out
  /\ tftRotation = Globals.tftRotation
  /\ LONG_BITS \in LongWidths
  /\ lastEvent = NoEvent
  /\ nEvents = 0
  /\ nLines = 0
  /\ NoManager

\* readSerialLine reads the next byte the operator typed
BootByte(c) ==
  /\ pc \in {"choice", "name1", "name2"}
  /\ IsPrintable(c) => Len(input) < MaxName
  /\ \E r \in {bootByte([Cur EXCEPT !.out = <<>>], c)} : Becomes(r)
  /\ lastEvent' = [kind |-> "BootByte", arg |-> <<c>>]
  /\ UNCHANGED <<nEvents, nLines>>

\* The first key of the calibration
FirstEvent(burst) == nEvents = 0 /\ Input(burst)

NextBoot ==
  \/ \E c \in BootBytes : BootByte(c)
  \/ \E burst \in KeyBursts : FirstEvent(burst)
  \/ Drain

SpecBoot == InitBoot /\ [][NextBoot]_vars

(***************************************************************************)
(* validateAndClampBounds on its own: the globals start at any bounds      *)
(* around the thresholds of the algorithm, in any rotation, and the        *)
(* function is applied to them twice.                                      *)
(***************************************************************************)
Around(v) == (v - Margin)..(v + Margin)

OriginInputs(max) ==
  Around(0) \cup Around(max \div 2) \cup Around(max - MIN_SIZE) \cup Around(max)
    \cup {max - 1}

SizeInputs(max) ==
  Around(0) \cup Around(MIN_SIZE) \cup Around(max \div 2) \cup Around(max)

InitClamp ==
  /\ currentRotation \in 0..3
  /\ usableOriginX \in OriginInputs(TftWidth(currentRotation))
  /\ usableOriginY \in OriginInputs(TftHeight(currentRotation))
  /\ usableWidth \in SizeInputs(TftWidth(currentRotation))
  /\ usableHeight \in SizeInputs(TftHeight(currentRotation))
  /\ frameThickness = Globals.frameThickness
  /\ currentMode = Globals.currentMode
  /\ lastSavedState = Globals.lastSavedState
  /\ hasUnsavedChanges = Globals.hasUnsavedChanges
  /\ hasEverSaved = Globals.hasEverSaved
  /\ currentDisplayName = setup.currentDisplayName
  /\ configExists = setup.configExists
  /\ input = setup.input
  /\ rx = <<>>
  /\ pc = "clamp0"
  /\ job = <<>>
  /\ out = <<>>
  /\ tftRotation = currentRotation
  /\ LONG_BITS = BOARD_LONG_BITS
  /\ lastEvent = [kind |-> "ClampInput",
                  arg |-> <<usableOriginX, usableOriginY,
                            usableWidth, usableHeight>>]
  /\ nEvents = 0
  /\ nLines = 0
  /\ NoManager

ClampOnce ==
  /\ pc = "clamp0"
  /\ \E r \in {clampBounds(Cur)} : Becomes([r EXCEPT !.pc = "clamp1"])
  /\ UNCHANGED <<lastEvent, nEvents, nLines>>

ClampAgain ==
  /\ pc = "clamp1"
  /\ \E r \in {clampBounds(Cur)} : Becomes([r EXCEPT !.pc = "clamp2"])
  /\ UNCHANGED <<lastEvent, nEvents, nLines>>

NextClamp == ClampOnce \/ ClampAgain

SpecClamp == InitClamp /\ [][NextClamp]_vars

(***************************************************************************)
(* The display manager on its own: a program constructs a manager of any   *)
(* capacity and calls addDisplay with any configuration any number of      *)
(* times.                                                                  *)
(***************************************************************************)
ConfigNames == {<<>>} \cup {<<a>> : a \in Addresses}

Configs ==
  [name : ConfigNames, width : {0, 128}, height : {0, 160}]

InitManager ==
  /\ currentRotation = Globals.currentRotation
  /\ usableOriginX = Globals.usableOriginX
  /\ usableOriginY = Globals.usableOriginY
  /\ usableWidth = Globals.usableWidth
  /\ usableHeight = Globals.usableHeight
  /\ frameThickness = Globals.frameThickness
  /\ currentMode = Globals.currentMode
  /\ lastSavedState = Globals.lastSavedState
  /\ hasUnsavedChanges = Globals.hasUnsavedChanges
  /\ hasEverSaved = Globals.hasEverSaved
  /\ currentDisplayName = Globals.currentDisplayName
  /\ configExists = Globals.configExists
  /\ input = Globals.input
  /\ rx = Globals.rx
  /\ pc = Globals.pc
  /\ job = Globals.job
  /\ out = Globals.out
  /\ tftRotation = Globals.tftRotation
  /\ LONG_BITS = BOARD_LONG_BITS
  /\ lastEvent = NoEvent
  /\ nEvents = 0
  /\ nLines = 0
  /\ MAX_DISPLAYS \in 1..MaxCapacity
  /\ ManagerConstructed
  /\ buffers \in {NameMemory(text) : text \in BufferTexts}

SessionUntouched ==
  UNCHANGED <<currentRotation, usableOriginX, usableOriginY, usableWidth,
              usableHeight, frameThickness, currentMode, lastSavedState,
              hasUnsavedChanges, hasEverSaved, currentDisplayName,
              configExists, input, rx, pc, job, out, tftRotation, LONG_BITS,
              nEvents, nLines>>

AddDisplay(config, allocation) ==
  /\ returned # "crashed"
  /\ \E r \in {addDisplay([displays |-> displays,
                            displayCount |-> displayCount,
                            buffers |-> buffers],
                           config, allocation)} :
        /\ displays' = r.displays
        /\ displayCount' = r.displayCount
        /\ returned' = r.result
  /\ lastEvent' = [kind |-> "addDisplay", arg |-> <<config>>]
  /\ UNCHANGED <<MAX_DISPLAYS, buffers>>
  /\ SessionUntouched

NextManager ==
  \E config \in Configs, allocation \in Allocations :
     AddDisplay(config, allocation)

SpecManager == InitManager /\ [][NextManager]_vars

(***************************************************************************)
(* Vocabulary of the properties                                            *)
(***************************************************************************)
Bounds == <<usableOriginX, usableOriginY, usableWidth, usableHeight>>

Geometry == <<currentRotation, usableOriginX, usableOriginY, usableWidth,
              usableHeight>>

BoundsUnset == usableWidth = 0 \/ usableHeight = 0

BoundsValid ==
  /\ usableOriginX >= 0
  /\ usableOriginY >= 0
  /\ usableOriginX + usableWidth <= TftWidth(currentRotation)
  /\ usableOriginY + usableHeight <= TftHeight(currentRotation)
  /\ usableWidth >= 10
  /\ usableHeight >= 10

HasTag(o, t) == \E i \in DOMAIN o : o[i].tag = t

Records(o) == {o[i] : i \in {j \in DOMAIN o : o[j].tag = "CONFIG"}}

(***************************************************************************)
(* Properties                                                              *)
(***************************************************************************)

\* C1: after every event that mutates UsableBounds, the bounds are unset
\* or satisfy x >= 0, y >= 0, x + width <= nominal width,
\* y + height <= nominal height, width >= 10 and height >= 10.
C1_BoundsInvariantAfterMutation ==
  [][Bounds' # Bounds => (BoundsUnset' \/ BoundsValid')]_vars

\* C2: whatever the input bounds and the nominal surface, the result of
\* validateAndClampBounds satisfies all of the bounds invariants,
\* width >= 10 and height >= 10 included.
C2_ClampedBoundsValid == pc \in {"clamp1", "clamp2"} => BoundsValid

\* C3: clamping is idempotent: a second validateAndClampBounds leaves
\* (x, y, width, height) as the first one left them.
C3_ClampIdempotent ==
  [][(pc = "clamp1" /\ pc' = "clamp2") => Bounds' = Bounds]_vars

\* C3 witness: both applications ran on bounds the first one had to change
C3_Witness ==
  /\ pc = "clamp2"
  /\ lastEvent.kind = "ClampInput"
  /\ lastEvent.arg # Bounds
  /\ HasTag(out, "CLAMP_WARNING")

\* C4: the unsaved-changes flag goes from true to false when, and only
\* when, a save-and-exit runs whose export produced a record; a
\* save-and-exit whose export failed on unset bounds does not clear it.
C4_FlagClearedOnlyBySuccessfulSave ==
  [][/\ (hasUnsavedChanges /\ ~hasUnsavedChanges')
          => (HasTag(out', "SAVED") /\ HasTag(out', "CONFIG"))
     /\ (hasUnsavedChanges /\ HasTag(out', "SAVED")
           /\ HasTag(out', "ERR_BOUNDS_NOT_SET"))
          => hasUnsavedChanges']_vars

\* An accepted edit: an arrow handled in an adjustment mode that changed
\* the bounds (edge adjust, frame move) or the thickness, or any arrow
\* handled in rotation mode.
AcceptedEdit ==
  /\ pc = "loop"
  /\ lastEvent'.kind = "Arrow"
  /\ \/ currentMode \in {MODE_EDGE_ADJUST, MODE_FRAME_MOVE} /\ Bounds' # Bounds
     \/ currentMode = MODE_THICKNESS /\ frameThickness' # frameThickness
     \/ currentMode = MODE_ROTATION

\* C5: after any accepted edit the unsaved-changes flag is true.
C5_AcceptedEditSetsFlag == [][AcceptedEdit => hasUnsavedChanges']_vars

\* C5 witness: the first edit of a session, a thickness step up from 2,
\* has just been accepted and the flag is set
C5_Witness ==
  /\ lastEvent = [kind |-> "Arrow", arg |-> <<"U">>]
  /\ currentMode = MODE_THICKNESS
  /\ frameThickness = 3
  /\ nEvents = 2
  /\ hasUnsavedChanges

\* C6: with unsaved changes, exit-without-saving halts the session only
\* after the operator answers 'y' or 'Y'; any other answer, escape
\* included, leaves the session running with geometry and the unsaved
\* flag unchanged.
C6_ExitNeedsConfirmation ==
  [][/\ (hasUnsavedChanges /\ pc = "loop") => pc' # "halted"
     /\ pc = "confirm" =>
          /\ hasUnsavedChanges
          /\ pc' = "halted" => lastEvent'.arg \in {<<"y">>, <<"Y">>}
          /\ lastEvent'.arg \notin {<<"y">>, <<"Y">>} =>
               /\ pc' = "loop"
               /\ Geometry' = Geometry
               /\ hasUnsavedChanges' = hasUnsavedChanges]_vars

\* C6 witness: the operator refused with escape and the session runs on
\* with its unsaved changes
C6_Witness ==
  /\ lastEvent = [kind |-> "Confirm", arg |-> <<"ESC">>]
  /\ pc = "loop"
  /\ hasUnsavedChanges
  /\ ~BoundsUnset

\* A rotation change: an arrow handled in rotation mode or a legacy
\* rot0..rot3 line
RotationEvent ==
  /\ pc = "loop"
  /\ \/ lastEvent'.kind = "Arrow" /\ currentMode = MODE_ROTATION
     \/ /\ lastEvent'.kind = "LegacyLine"
        /\ ToLowerCase(Trim(lastEvent'.arg)) \in
             {<<"r", "o", "t", "0">>, <<"r", "o", "t", "1">>,
              <<"r", "o", "t", "2">>, <<"r", "o", "t", "3">>}

\* C7: every rotation change resets UsableBounds to the unset sentinel
\* (0,0,0,0), whatever the bounds were before.
C7_RotationResetsBounds ==
  [][(RotationEvent \/ currentRotation' # currentRotation)
       => Bounds' = <<0, 0, 0, 0>>]_vars

\* C7 witness: a rotate step has just turned the display away from the
\* rotation the session started in
C7_Witness ==
  /\ lastEvent = [kind |-> "Arrow", arg |-> <<"L">>]
  /\ currentMode = MODE_ROTATION
  /\ currentRotation = 0
  /\ Bounds = <<0, 0, 0, 0>>

\* The edits of the scenario: at rotation 1 in edge-adjust mode,
\* contract-left from (0,0,160,128), then contract-top twice
ScenarioEdits ==
  /\ (currentRotation = 1 /\ currentMode = MODE_EDGE_ADJUST /\ pc = "loop"
        /\ Bounds = <<0, 0, 160, 128>>
        /\ lastEvent' = [kind |-> "Arrow", arg |-> <<"R">>])
       => Bounds' = <<1, 0, 159, 128>>
  /\ (currentRotation = 1 /\ currentMode = MODE_EDGE_ADJUST /\ pc = "loop"
        /\ Bounds = <<1, 0, 159, 128>>
        /\ lastEvent' = [kind |-> "Arrow", arg |-> <<"D">>])
       => Bounds' = <<1, 1, 159, 127>>
  /\ (currentRotation = 1 /\ currentMode = MODE_EDGE_ADJUST /\ pc = "loop"
        /\ Bounds = <<1, 1, 159, 127>>
        /\ lastEvent' = [kind |-> "Arrow", arg |-> <<"D">>])
       => Bounds' = <<1, 2, 159, 126>>

\* The export of the scenario emits a record with the given centre
ScenarioExport(center) ==
  (currentRotation = 1 /\ Bounds = <<1, 2, 159, 126>> /\ pc = "loop"
     /\ HasTag(out', "CONFIG"))
    => \A r \in Records(out') :
         /\ r.left = 1 /\ r.right = 159 /\ r.top = 2 /\ r.bottom = 127
         /\ r.center = center

\* C8 as stated: the scenario's export emits left=1, right=159, top=2,
\* bottom=127, center=[80,64].
C8_ScenarioAsStated ==
  [][ScenarioEdits /\ ScenarioExport(<<80, 64>>)]_vars

\* C8 amended: on 160x128 at rotation 1 from (0,0,160,128), contract-left
\* gives (1,0,159,128), contract-top twice gives (1,2,159,126), and export
\* emits left=1, right=159, top=2, bottom=127, center=[80,65].
C8_Scenario ==
  [][ScenarioEdits /\ ScenarioExport(<<80, 65>>)]_vars

\* C8 witness: the record was exported right after the second
\* contract-top of the scenario, in edge-adjust mode
C8_Witness ==
  /\ currentRotation = 1
  /\ Bounds = <<1, 2, 159, 126>>
  /\ HasTag(out, "CONFIG")
  /\ lastEvent.kind = "LegacyLine"
  /\ currentMode = MODE_EDGE_ADJUST
  /\ nEvents = 5

\* A step that handles the key '5'
ModeSelect5 ==
  pc = "loop" /\ lastEvent' = [kind |-> "ModeSelect", arg |-> <<"5">>]

\* C9 as stated: ModeSelect(5) leaves the persisted mode field as it was.
C9_ModeUnchangedByModeSelect5 ==
  [][ModeSelect5 => currentMode' = currentMode]_vars

\* C9 amended: ModeSelect(5) performs the save-and-export action and
\* sets the persisted mode field to SaveAndExit, whatever mode was active.
C9_ModeSelect5SetsSaveExit ==
  [][ModeSelect5 =>
       (currentMode' = MODE_SAVE_EXIT /\ HasTag(out', "SAVED"))]_vars

\* C9 witness: '5' was pressed and the mode field holds SaveAndExit
C9_Witness ==
  /\ lastEvent = [kind |-> "ModeSelect", arg |-> <<"5">>]
  /\ currentMode = MODE_SAVE_EXIT
  /\ HasTag(out, "CONFIG")

SessionState == <<Geometry, frameThickness, currentMode, hasUnsavedChanges>>

\* C10 as stated: once a save-and-exit has run, no later input changes
\* the session state.
C10_NothingAfterSave ==
  [][hasEverSaved => SessionState' = SessionState]_vars

\* C10 amended: a save-and-exit does not end the session: the loop is
\* running when it completes and later events still change the session
\* state; only exit-without-saving (the key '6', confirmed when there
\* are unsaved changes) halts it.
C10_OnlyExitWithoutSavingHalts ==
  [][/\ HasTag(out', "SAVED") => pc' = "loop"
     /\ (pc' = "halted" /\ pc # "halted") =>
          \/ lastEvent' = [kind |-> "ModeSelect", arg |-> <<"6">>]
          \/ lastEvent'.kind = "Confirm"]_vars

\* C10 witness: an edit was accepted after a save-and-exit had completed
C10_Witness ==
  /\ hasEverSaved
  /\ hasUnsavedChanges
  /\ lastEvent.kind = "Arrow"
  /\ pc = "loop"

(***************************************************************************)
(* Mode state machine                                                      *)
(***************************************************************************)
\* The state a save-and-exit leaves behind
SavedNow ==
  [rotation |-> currentRotation, usableOriginX |-> usableOriginX,
   usableOriginY |-> usableOriginY, usableWidth |-> usableWidth,
   usableHeight |-> usableHeight, frameThickness |-> frameThickness]

\* The step ran the save-and-exit action: the export was attempted, the
\* flags and the saved snapshot were written, and loop() goes on
SaveAndExitRan ==
  /\ HasTag(out', "SAVED")
  /\ HasTag(out', "CONFIG") = ~BoundsUnset
  /\ HasTag(out', "ERR_BOUNDS_NOT_SET") = BoundsUnset
  /\ ~hasUnsavedChanges'
  /\ hasEverSaved'
  /\ lastSavedState' = SavedNow
  /\ Geometry' = Geometry
  /\ frameThickness' = frameThickness
  /\ pc' = "loop"

\* A step of loop() that handles an event of the given kind
Handles(kind) == pc = "loop" /\ lastEvent'.kind = kind

AdjustmentModes ==
  {MODE_EDGE_ADJUST, MODE_FRAME_MOVE, MODE_THICKNESS, MODE_ROTATION}

\* C11: Cancel (Ctrl-C read by loop()) runs the save-and-exit action from
\* every mode, None, the four adjustment modes and the mode left behind by
\* ModeSelect(5) alike, and the mode plays no part in it.
C11_CancelSavesFromEveryMode ==
  [][Handles("Cancel") => (SaveAndExitRan /\ currentMode' = currentMode)]_vars

\* C11 witness: Ctrl-C was handled in rotation mode with the bounds reset
\* by a rotation, and the save ran although the export failed
C11_Witness ==
  /\ lastEvent.kind = "Cancel"
  /\ currentMode = MODE_ROTATION
  /\ BoundsUnset
  /\ HasTag(out, "SAVED")
  /\ hasEverSaved

\* C12: a plain escape in EdgeAdjust, FrameMove, Thickness or Rotate mode
\* sets the mode to None and changes nothing else; in mode None it runs
\* the save-and-exit action.
C12_PlainEscape ==
  [][Handles("PlainEscape") =>
       /\ currentMode \in AdjustmentModes =>
            /\ currentMode' = MODE_NONE
            /\ Geometry' = Geometry
            /\ frameThickness' = frameThickness
            /\ hasUnsavedChanges' = hasUnsavedChanges
            /\ hasEverSaved' = hasEverSaved
            /\ lastSavedState' = lastSavedState
            /\ ~HasTag(out', "SAVED")
            /\ pc' = "loop"
       /\ currentMode = MODE_NONE =>
            (SaveAndExitRan /\ currentMode' = MODE_NONE)]_vars

\* C12 witness: escape has left an adjustment mode in which an edit was
\* made, and the edit is still unsaved
C12_Witness ==
  /\ lastEvent.kind = "PlainEscape"
  /\ currentMode = MODE_NONE
  /\ hasUnsavedChanges
  /\ ~hasEverSaved
  /\ Bounds # <<0, 0, 160, 128>>

\* A step of loop() that handles the key '6'
ModeSelect6 ==
  pc = "loop" /\ lastEvent' = [kind |-> "ModeSelect", arg |-> <<"6">>]

\* The answer to the confirmation and its outcome
ConfirmOutcome ==
  pc = "confirm" =>
    /\ lastEvent'.kind = "Confirm"
    /\ lastEvent'.arg \in {<<"y">>, <<"Y">>} => pc' = "halted"
    /\ lastEvent'.arg \notin {<<"y">>, <<"Y">>} =>
         (pc' = "loop" /\ currentMode' = MODE_NONE)

\* C13 as stated: ModeSelect(6) always performs an exit confirmation: the
\* session terminates only if the operator confirms; if the operator
\* cancels, the mode becomes None and the session continues.
C13_ExitAlwaysConfirmed ==
  [][/\ ModeSelect6 => pc' = "confirm"
     /\ (pc' = "halted" /\ pc # "halted") =>
          (pc = "confirm" /\ lastEvent'.arg \in {<<"y">>, <<"Y">>})
     /\ ConfirmOutcome]_vars

\* C13 amended: ModeSelect(6) performs the exit confirmation only when
\* there are unsaved changes: then the session terminates only on the
\* answer 'y' or 'Y', and any other answer sets the mode to None and the
\* session continues; without unsaved changes the session terminates at
\* once, with no confirmation.
C13_ExitConfirmedWhenUnsaved ==
  [][/\ ModeSelect6 =>
          /\ hasUnsavedChanges => (pc' = "confirm" /\ hasUnsavedChanges')
          /\ ~hasUnsavedChanges => pc' = "halted"
          /\ Geometry' = Geometry
     /\ (pc' = "halted" /\ pc # "halted") =>
          \/ pc = "confirm" /\ lastEvent'.arg \in {<<"y">>, <<"Y">>}
          \/ ModeSelect6 /\ ~hasUnsavedChanges
     /\ ConfirmOutcome]_vars

\* C13 witness: the key '6' ended a session that had nothing unsaved
\* after a save, with no confirmation asked
C13_Witness ==
  /\ lastEvent = [kind |-> "ModeSelect", arg |-> <<"6">>]
  /\ pc = "halted"
  /\ hasEverSaved
  /\ ~hasUnsavedChanges

\* C14: from any mode, ModeSelect(n) for n in 1..4 sets the mode to
\* EdgeAdjust, FrameMove, Thickness, Rotate respectively and leaves
\* bounds, rotation, thickness and the unsaved-changes flag unchanged.
C14_ModeSelectAdjustment ==
  [][\A n \in 1..4 :
       (pc = "loop" /\ lastEvent'.kind = "ModeSelect"
          /\ DigitVal(lastEvent'.arg[1]) = n) =>
         /\ currentMode' = <<MODE_EDGE_ADJUST, MODE_FRAME_MOVE,
                             MODE_THICKNESS, MODE_ROTATION>>[n]
         /\ Geometry' = Geometry
         /\ frameThickness' = frameThickness
         /\ hasUnsavedChanges' = hasUnsavedChanges
         /\ pc' = "loop"]_vars

\* C14 witness: frame-move mode was selected directly from another
\* adjustment mode in which an edit had been made
C14_Witness ==
  /\ lastEvent = [kind |-> "ModeSelect", arg |-> <<"2">>]
  /\ currentMode = MODE_FRAME_MOVE
  /\ hasUnsavedChanges
  /\ nEvents = 3

(***************************************************************************)
(* Arrow dispatch and edit operations                                      *)
(***************************************************************************)
\* A step of loop() that handles an arrow in the given mode and direction
ArrowIn(mode, direction) ==
  /\ pc = "loop"
  /\ currentMode = mode
  /\ lastEvent' = [kind |-> "Arrow", arg |-> <<direction>>]

Directions == {"U", "D", "L", "R"}

\* What a handler leaves in the session and on the terminal
Effect(s) ==
  <<s.currentRotation, s.usableOriginX, s.usableOriginY, s.usableWidth,
    s.usableHeight, s.frameThickness, s.hasUnsavedChanges, s.out>>

\* C15: an Arrow event is dispatched to adjustEdge, moveFrame,
\* adjustThickness or rotateDisplay in EdgeAdjust, FrameMove, Thickness or
\* Rotate mode respectively; in every other mode, None included, it
\* changes no session state and produces operator feedback.
C15_ArrowDispatch ==
  [][\A d \in Directions :
       /\ ArrowIn(MODE_EDGE_ADJUST, d) =>
            Effect(Cur') = Effect(adjustEdge([Cur EXCEPT !.out = <<>>], d))
       /\ ArrowIn(MODE_FRAME_MOVE, d) =>
            Effect(Cur') = Effect(moveFrame([Cur EXCEPT !.out = <<>>], d))
       /\ ArrowIn(MODE_THICKNESS, d) =>
            Effect(Cur') = Effect(adjustThickness([Cur EXCEPT !.out = <<>>], d))
       /\ ArrowIn(MODE_ROTATION, d) =>
            Effect(Cur') = Effect(rotateDisplay([Cur EXCEPT !.out = <<>>], d))
       /\ (ArrowIn(currentMode, d) /\ currentMode \notin AdjustmentModes) =>
            (SessionState' = SessionState /\ out' # <<>>)]_vars

\* C16: while UsableBounds is unset (width = 0 or height = 0), EdgeAdjust,
\* FrameMove and ThicknessAdjust are no-ops: each leaves bounds, thickness,
\* rotation and the unsaved-changes flag unchanged.
C16_EditsNoOpWhileUnset ==
  [][\A d \in Directions :
       (BoundsUnset /\ (\/ ArrowIn(MODE_EDGE_ADJUST, d)
                        \/ ArrowIn(MODE_FRAME_MOVE, d)
                        \/ ArrowIn(MODE_THICKNESS, d))) =>
         /\ Geometry' = Geometry
         /\ frameThickness' = frameThickness
         /\ hasUnsavedChanges' = hasUnsavedChanges]_vars

\* The state is as the step found it
Refused ==
  /\ Geometry' = Geometry
  /\ frameThickness' = frameThickness
  /\ hasUnsavedChanges' = hasUnsavedChanges
  /\ currentMode' = currentMode

\* C17: EdgeAdjust is inverted on the top and left edges: for valid bounds
\* with y > 0, expanding the top edge decreases y by 1 and increases the
\* height by 1; for valid bounds with x > 0, expanding the left edge
\* decreases x by 1 and increases the width by 1; at y = 0 (resp. x = 0)
\* the expansion is refused and the state is unchanged.
C17_InvertedTopLeft ==
  [][BoundsValid =>
       /\ ArrowIn(MODE_EDGE_ADJUST, "U") =>
            IF usableOriginY > 0
              THEN Bounds' = <<usableOriginX, usableOriginY - 1,
                               usableWidth, usableHeight + 1>>
              ELSE Refused
       /\ ArrowIn(MODE_EDGE_ADJUST, "L") =>
            IF usableOriginX > 0
              THEN Bounds' = <<usableOriginX - 1, usableOriginY,
                               usableWidth + 1, usableHeight>>
              ELSE Refused]_vars

\* C17 witness: the left edge of (1,2,158,126) has been expanded to x = 0
C17_Witness ==
  /\ lastEvent = [kind |-> "Arrow", arg |-> <<"L">>]
  /\ currentMode = MODE_EDGE_ADJUST
  /\ Bounds = <<0, 2, 159, 126>>
  /\ hasUnsavedChanges

\* The bounds adjustEdge leaves when it handles direction d now
EdgeResult(d) ==
  LET r == adjustEdge(Cur, d)
  IN  <<r.usableOriginX, r.usableOriginY, r.usableWidth, r.usableHeight>>

\* C18: EdgeAdjust moves the right and bottom edges in the naive
\* direction: for valid bounds, some EdgeAdjust step expands the right
\* (resp. bottom) edge by increasing the width (resp. height) by 1 with the
\* origin unchanged where there is room, and some step contracts it by
\* decreasing the width (resp. height) by 1 with the origin unchanged
\* where the size is above the minimum.
C18_RightBottomNaive ==
  (pc = "loop" /\ currentMode = MODE_EDGE_ADJUST /\ BoundsValid) =>
    /\ usableOriginX + usableWidth < TftWidth(currentRotation) =>
         \E d \in Directions :
           EdgeResult(d) = <<usableOriginX, usableOriginY,
                             usableWidth + 1, usableHeight>>
    /\ usableWidth > MIN_SIZE =>
         \E d \in Directions :
           EdgeResult(d) = <<usableOriginX, usableOriginY,
                             usableWidth - 1, usableHeight>>
    /\ usableOriginY + usableHeight < TftHeight(currentRotation) =>
         \E d \in Directions :
           EdgeResult(d) = <<usableOriginX, usableOriginY,
                             usableWidth, usableHeight + 1>>
    /\ usableHeight > MIN_SIZE =>
         \E d \in Directions :
           EdgeResult(d) = <<usableOriginX, usableOriginY,
                             usableWidth, usableHeight - 1>>

\* What holds instead: an EdgeAdjust step that changes the bounds always
\* moves the origin, so no step moves only the right or the bottom edge
EdgeStepMovesOrigin ==
  [][\A d \in Directions :
       (ArrowIn(MODE_EDGE_ADJUST, d) /\ Bounds' # Bounds) =>
         <<usableOriginX', usableOriginY'>> # <<usableOriginX, usableOriginY>>]_vars

\* The contract-left steps of the scenario, from (0,0,12,12)
ContractLeftScenario ==
  /\ (ArrowIn(MODE_EDGE_ADJUST, "R") /\ Bounds = <<0, 0, 12, 12>>)
       => (Bounds' = <<1, 0, 11, 12>> /\ hasUnsavedChanges')
  /\ (ArrowIn(MODE_EDGE_ADJUST, "R") /\ Bounds = <<1, 0, 11, 12>>)
       => (Bounds' = <<2, 0, 10, 12>> /\ hasUnsavedChanges')
  /\ (ArrowIn(MODE_EDGE_ADJUST, "R") /\ Bounds = <<2, 0, 10, 12>>)
       => (Bounds' = <<2, 0, 10, 12>> /\ usableWidth' = MIN_SIZE)

\* C19: an EdgeAdjust contraction is refused whenever it would take the
\* affected dimension below 10, and the refused step leaves bounds and the
\* unsaved-changes flag unchanged; from (0,0,12,12), repeated contract-left
\* steps end with width = 10 and every further contract-left is refused.
C19_ContractionRefusedBelowMin ==
  [][/\ (ArrowIn(MODE_EDGE_ADJUST, "R") /\ usableWidth - 1 < MIN_SIZE)
          => Refused
     /\ (ArrowIn(MODE_EDGE_ADJUST, "D") /\ usableHeight - 1 < MIN_SIZE)
          => Refused
     /\ ContractLeftScenario]_vars

\* C19 witness: the third contract-left of the scenario was refused at
\* width 10, with no adjustment reported
C19_Witness ==
  /\ lastEvent = [kind |-> "Arrow", arg |-> <<"R">>]
  /\ currentMode = MODE_EDGE_ADJUST
  /\ Bounds = <<2, 0, 10, 12>>
  /\ ~HasTag(out, "EDGE_ADJUSTED")
  /\ hasUnsavedChanges

\* The rectangle touches the side of the surface that direction d
\* points to
Touches(d) ==
  CASE d = "U" -> usableOriginY = 0
    [] d = "D" -> usableOriginY + usableHeight = TftHeight(currentRotation)
    [] d = "L" -> usableOriginX = 0
    [] d = "R" -> usableOriginX + usableWidth = TftWidth(currentRotation)

\* The bounds translated by one pixel in direction d
Translated(d) ==
  CASE d = "U" -> <<usableOriginX, usableOriginY - 1, usableWidth, usableHeight>>
    [] d = "D" -> <<usableOriginX, usableOriginY + 1, usableWidth, usableHeight>>
    [] d = "L" -> <<usableOriginX - 1, usableOriginY, usableWidth, usableHeight>>
    [] d = "R" -> <<usableOriginX + 1, usableOriginY, usableWidth, usableHeight>>

\* C20: for valid bounds, an accepted FrameMove step changes exactly one
\* origin coordinate by 1 and leaves width and height unchanged; a step
\* towards a side the rectangle already touches is refused and leaves the
\* state unchanged.
C20_FrameMove ==
  [][\A d \in Directions :
       (BoundsValid /\ ArrowIn(MODE_FRAME_MOVE, d)) =>
         IF Touches(d)
           THEN Refused
           ELSE /\ Bounds' = Translated(d)
                /\ currentRotation' = currentRotation
                /\ hasUnsavedChanges']_vars

\* C20 witness: a rectangle with room on every side was moved up by one
C20_Witness ==
  /\ lastEvent = [kind |-> "Arrow", arg |-> <<"U">>]
  /\ currentMode = MODE_FRAME_MOVE
  /\ Bounds = <<1, 1, 158, 126>>
  /\ hasUnsavedChanges

(***************************************************************************)
(* Rotation, thickness and export                                          *)
(***************************************************************************)
\* A step of loop() that handles the legacy command with the given name
LegacyCommand(name) ==
  /\ pc = "loop"
  /\ lastEvent'.kind = "LegacyLine"
  /\ ToLowerCase(Trim(lastEvent'.arg)) = name

\* The nominal surface of a rotation, as the specification gives it
NominalWidth(rot) == IF rot \in {1, 3} THEN 160 ELSE 128

NominalHeight(rot) == IF rot \in {1, 3} THEN 128 ELSE 160

\* The bounds initializeBoundsFromPublished sets in rotation rot
PublishedSurface(rot) ==
  LET b == initializeBoundsFromPublished([Cur EXCEPT !.currentRotation = rot])
  IN  <<b.usableWidth, b.usableHeight>>

\* C21: Rotate clockwise (Right) sets the rotation to (r + 1) mod 4 and
\* counter-clockwise (Left) to (r + 3) mod 4; the rotation stays in
\* {0,1,2,3}; the display driver is given every rotation the session takes,
\* so that the surface it reports is the nominal surface of the session's
\* rotation, and the published dimensions the program starts from are
\* 160x128 for rotations 1 and 3 and 128x160 for rotations 0 and 2.
C21_RotationModulo4 ==
  [][/\ ArrowIn(MODE_ROTATION, "R") =>
          currentRotation' = (currentRotation + 1) % 4
     /\ ArrowIn(MODE_ROTATION, "L") =>
          currentRotation' = (currentRotation + 3) % 4
     /\ currentRotation' \in 0..3
     /\ tftRotation' = currentRotation'
     /\ TftWidth(tftRotation') = NominalWidth(currentRotation')
     /\ TftHeight(tftRotation') = NominalHeight(currentRotation')
     /\ \A rot \in 0..3 :
          PublishedSurface(rot) = <<NominalWidth(rot), NominalHeight(rot)>>]_vars

\* C21 witness: three clockwise steps from rotation 1 have wrapped the
\* rotation round to 0
C21_Witness ==
  /\ lastEvent = [kind |-> "Arrow", arg |-> <<"R">>]
  /\ currentMode = MODE_ROTATION
  /\ currentRotation = 0
  /\ tftRotation = 0
  /\ nEvents = 4
  /\ nLines = 0

\* C22: FrameThickness is in [1,5] in every reachable state: up increments
\* it only while it is below 5, down decrements it only while it is above
\* 1, and a step beyond either limit leaves thickness and the
\* unsaved-changes flag unchanged.
C22_ThicknessRange ==
  [][/\ frameThickness' \in 1..5
     /\ ArrowIn(MODE_THICKNESS, "U") =>
          IF frameThickness < 5
            THEN frameThickness' = frameThickness + 1
            ELSE (frameThickness' = frameThickness
                    /\ hasUnsavedChanges' = hasUnsavedChanges)
     /\ ArrowIn(MODE_THICKNESS, "D") =>
          IF frameThickness > 1
            THEN frameThickness' = frameThickness - 1
            ELSE (frameThickness' = frameThickness
                    /\ hasUnsavedChanges' = hasUnsavedChanges)]_vars

\* C22 witness: a step up was refused at thickness 5
C22_Witness ==
  /\ lastEvent = [kind |-> "Arrow", arg |-> <<"U">>]
  /\ currentMode = MODE_THICKNESS
  /\ frameThickness = 5
  /\ ~HasTag(out, "THICKNESS")

\* C23: a ThicknessAdjust step never changes UsableBounds, in any
\* reachable state, bounds unset after a rotation included.
C23_ThicknessKeepsBounds ==
  [][\A d \in Directions : ArrowIn(MODE_THICKNESS, d) => Bounds' = Bounds]_vars

\* A step of loop() that runs the exporter: the legacy export command,
\* ModeSelect(5), a plain escape in mode None, or Cancel
ExportTriggered ==
  \/ LegacyCommand(<<"e", "x", "p", "o", "r", "t">>)
  \/ ModeSelect5
  \/ (Handles("PlainEscape") /\ currentMode = MODE_NONE)
  \/ Handles("Cancel")

\* C24: export fails whenever UsableBounds is unset: an error is reported
\* and no record is produced, from any mode and by any trigger.
C24_ExportFailsWhenUnset ==
  [][/\ (ExportTriggered /\ BoundsUnset) =>
          (HasTag(out', "ERR_BOUNDS_NOT_SET") /\ ~HasTag(out', "CONFIG"))
     /\ HasTag(out', "CONFIG") => ~BoundsUnset]_vars

\* C24 witness: ModeSelect(5) ran the exporter on bounds with only the
\* width zero, and the export failed
C24_Witness ==
  /\ lastEvent = [kind |-> "ModeSelect", arg |-> <<"5">>]
  /\ usableWidth = 0
  /\ usableHeight # 0
  /\ HasTag(out, "ERR_BOUNDS_NOT_SET")
  /\ ~HasTag(out, "CONFIG")

\* C25: whenever export succeeds, the record's bounds are the inclusive
\* edges of the current rectangle, left = x, right = x + width - 1,
\* top = y, bottom = y + height - 1, and its centre is
\* (x + width/2, y + height/2) with integer floor division.
C25_RecordEdgesAndCenter ==
  [][\A r \in Records(out') :
       /\ r.left = usableOriginX
       /\ r.right = usableOriginX + usableWidth - 1
       /\ r.top = usableOriginY
       /\ r.bottom = usableOriginY + usableHeight - 1
       /\ r.center = <<usableOriginX + (usableWidth \div 2),
                       usableOriginY + (usableHeight \div 2)>>]_vars

\* The labels of the four rotations, as the specification gives them
OrientationLabel ==
  <<"portrait", "landscape", "reverse_portrait", "reverse_landscape">>

\* C26: the exported orientation label is portrait for rotation 0,
\* landscape for rotation 1, reverse_portrait for rotation 2 and
\* reverse_landscape for rotation 3, for every rotation a session reaches.
C26_OrientationLabels ==
  [][\A r \in Records(out') :
       /\ currentRotation \in 0..3
       /\ r.orientation = OrientationLabel[currentRotation + 1]]_vars

\* C26 witness: a record was exported at rotation 3
C26_Witness ==
  /\ currentRotation = 3
  /\ \E r \in Records(out) : r.orientation = "reverse_landscape"

ReadOnlyCommands ==
  {<<"f", "r", "a", "m", "e">>, <<"c", "l", "e", "a", "r">>,
   <<"c", "r", "o", "s", "s">>, <<"c", "e", "n", "t", "e", "r">>,
   <<"i", "n", "f", "o">>, <<"h", "e", "l", "p">>,
   <<"e", "x", "p", "o", "r", "t">>}

\* C27: the legacy commands frame, clear, cross, center, info, help and
\* export, and the record exporter itself, leave x, y, width, height and
\* rotation unchanged in every reachable state.
C27_ReadOnlyCommandsKeepGeometry ==
  [][/\ \A name \in ReadOnlyCommands :
          LegacyCommand(name) => Geometry' = Geometry
     /\ ExportTriggered => Geometry' = Geometry]_vars

\* The argument of a legacy bounds line: what follows "bounds " in the
\* trimmed line
BoundsArgument(line) == SubstringFrom(Trim(line), 7)

IsBoundsLine(line) ==
  StartsWith(ToLowerCase(Trim(line)), <<"b", "o", "u", "n", "d", "s", " ">>)

CommaCount(str) == Cardinality({i \in DOMAIN str : str[i] = ","})

\* C28: a legacy bounds command whose argument lacks any of the three
\* comma separators, or has an empty first field, reports a format error
\* and mutates nothing: bounds, rotation, thickness, mode and the
\* unsaved-changes flag are unchanged.
C28_MalformedBounds ==
  [][(/\ Handles("LegacyLine")
      /\ IsBoundsLine(lastEvent'.arg)
      /\ \/ CommaCount(BoundsArgument(lastEvent'.arg)) < 3
         \/ BoundsArgument(lastEvent'.arg) = <<>>
         \/ Head(BoundsArgument(lastEvent'.arg)) = ",") =>
       (HasTag(out', "ERR_BOUNDS_FORMAT") /\ Refused)]_vars

\* C28 witness: a bounds line with an empty first field was rejected in a
\* session with unsaved edits
C28_Witness ==
  /\ lastEvent.kind = "LegacyLine"
  /\ IsBoundsLine(lastEvent.arg)
  /\ Head(BoundsArgument(lastEvent.arg)) = ","
  /\ HasTag(out, "ERR_BOUNDS_FORMAT")
  /\ hasUnsavedChanges
  /\ Bounds # <<0, 0, 160, 128>>

(***************************************************************************)
(* Input decoding                                                          *)
(***************************************************************************)
\* The arrow of each code byte, as the specification gives it
ArrowOfCode(code) ==
  CASE code = "A" -> "U" [] code = "B" -> "D"
    [] code = "C" -> "R" [] code = "D" -> "L"

\* Nothing of the session changed and nothing was printed
NoEffect ==
  /\ SessionState' = SessionState
  /\ hasEverSaved' = hasEverSaved
  /\ lastSavedState' = lastSavedState
  /\ out' = <<>>
  /\ pc' = "loop"

\* C29: decoding of the escape family: ESC '[' and a code byte A, B, C, D
\* yield Arrow Up, Down, Right, Left, and any other code byte yields no
\* event and changes no session state; ESC not followed by '[' (another
\* byte, or nothing after the lookahead) yields PlainEscape, and the
\* following byte, if any, is left for the next decode step.
C29_EscapeDecoding ==
  [][/\ \A code \in {"A", "B", "C", "D"} :
          Input(<<"ESC", "[", code>>) =>
            /\ lastEvent' = [kind |-> "Arrow", arg |-> <<ArrowOfCode(code)>>]
            /\ rx' = <<>>
     /\ Input(<<"ESC", "[", "Z">>) =>
          (lastEvent'.kind \notin {"Arrow", "PlainEscape"} /\ NoEffect
             /\ rx' = <<>>)
     /\ Input(<<"ESC">>) => (lastEvent'.kind = "PlainEscape" /\ rx' = <<>>)
     /\ Input(<<"ESC", "1">>) =>
          (lastEvent'.kind = "PlainEscape" /\ rx' = <<"1">>)
     /\ (Drain /\ rx = <<"1">>) =>
          lastEvent' = [kind |-> "ModeSelect", arg |-> <<"1">>]]_vars

\* C29 witness: an escape followed by the byte '1' was decoded as a plain
\* escape in an adjustment mode, and the '1' is still in the buffer
C29_Witness ==
  /\ lastEvent.kind = "PlainEscape"
  /\ rx = <<"1">>
  /\ pc = "loop"
  /\ currentMode = MODE_NONE
  /\ hasUnsavedChanges

(***************************************************************************)
(* Display selection                                                       *)
(***************************************************************************)
\* C30: the session never reaches the calibration loop with an empty
\* device name: for every sequence of bootstrap inputs, either the name is
\* non-empty when calibration starts, or the session halts before any
\* calibration event is processed.
C30_NameNonEmptyInCalibration ==
  /\ (pc \notin {"choice", "name1", "name2", "halted"} \/ nEvents > 0)
       => (currentDisplayName # <<>> /\ configExists)
  /\ currentDisplayName = <<>> => (nEvents = 0 /\ lastEvent.kind \in {"None", "BootByte"})

\* C30 witness: a two-byte name was accepted at a prompt and the first
\* key of the calibration was handled under it
C30_Witness ==
  /\ nEvents = 1
  /\ pc = "loop"
  /\ currentDisplayName = <<"a", "1">>
  /\ lastEvent.kind = "ModeSelect"

(***************************************************************************)
(* Invariants of the whole session                                         *)
(***************************************************************************)
\* The bounds lie inside the nominal surface of the current rotation and
\* are at least 10 by 10
BoundsWithinNominal ==
  /\ usableOriginX >= 0
  /\ usableOriginY >= 0
  /\ usableOriginX + usableWidth <= NominalWidth(currentRotation)
  /\ usableOriginY + usableHeight <= NominalHeight(currentRotation)
  /\ usableWidth >= 10
  /\ usableHeight >= 10

\* C31: in a session of ModeSelect, Arrow, PlainEscape and Cancel events
\* from bootstrap, with no legacy text command, every reachable state has
\* UsableBounds equal to the unset sentinel (0,0,0,0) or satisfying
\* x >= 0, y >= 0, x + width <= nominal width, y + height <= nominal
\* height, width >= 10 and height >= 10.
C31_KeysKeepBoundsInvariant ==
  Bounds = <<0, 0, 0, 0>> \/ BoundsWithinNominal

\* C31 witness: after a rotate step the bounds are away from both the
\* sentinel and the published size: a thickness step has clamped the unset
\* bounds to the minimum rectangle
C31_Witness ==
  /\ lastEvent.kind = "Arrow"
  /\ currentMode = MODE_THICKNESS
  /\ currentRotation = 0
  /\ Bounds = <<0, 0, 10, 10>>
  /\ nLines = 0

\* C32: every record emitted by export, in any state a session with
\* legacy commands reaches, has 0 <= left <= right < nominal width and
\* 0 <= top <= bottom < nominal height for the current rotation.
C32_RecordWithinNominal ==
  [][\A r \in Records(out') :
       /\ 0 <= r.left
       /\ r.left <= r.right
       /\ r.right < NominalWidth(currentRotation')
       /\ 0 <= r.top
       /\ r.top <= r.bottom
       /\ r.bottom < NominalHeight(currentRotation')]_vars

\* The geometry of the last save, or of bootstrap while nothing was saved
GeometryAtLastSave ==
  IF hasEverSaved
    THEN <<lastSavedState.rotation, lastSavedState.usableOriginX,
           lastSavedState.usableOriginY, lastSavedState.usableWidth,
           lastSavedState.usableHeight>>
    ELSE <<setup.currentRotation, setup.usableOriginX, setup.usableOriginY,
           setup.usableWidth, setup.usableHeight>>

\* C33: every operation that changes the rotation or UsableBounds, the
\* legacy commands rot0..rot3, bounds, center and test included, sets the
\* unsaved-changes flag, so that exit-without-saving never ends the
\* session without confirmation after the calibration was changed since
\* the last save.
C33_GeometryChangeSetsFlag ==
  [][/\ Geometry' # Geometry => hasUnsavedChanges'
     /\ (ModeSelect6 /\ pc' = "halted") => Geometry = GeometryAtLastSave]_vars

\* C34: in Rotate mode an Up or Down arrow is a no-op: it leaves the
\* rotation, UsableBounds and the unsaved-changes flag unchanged; only
\* Left and Right arrows change the state.
C34_UpDownNoOpInRotateMode ==
  [][(ArrowIn(MODE_ROTATION, "U") \/ ArrowIn(MODE_ROTATION, "D")) =>
       /\ currentRotation' = currentRotation
       /\ Bounds' = Bounds
       /\ hasUnsavedChanges' = hasUnsavedChanges]_vars

\* C35: every accepted EdgeAdjust step on valid bounds preserves the
\* right edge x + width and the bottom edge y + height, so that after any
\* sequence of EdgeAdjust steps from valid bounds both sums equal their
\* values before the sequence.
C35_EdgeAdjustKeepsRightBottom ==
  [][\A d \in Directions :
       (BoundsValid /\ ArrowIn(MODE_EDGE_ADJUST, d)) =>
         /\ usableOriginX' + usableWidth' = usableOriginX + usableWidth
         /\ usableOriginY' + usableHeight' = usableOriginY + usableHeight]_vars

\* C35 witness: four accepted EdgeAdjust steps from the bootstrap bounds
\* (0,0,160,128), three contractions and an expansion, have moved the
\* left and top edges and left the sums at 160 and 128
C35_Witness ==
  /\ lastEvent = [kind |-> "Arrow", arg |-> <<"L">>]
  /\ currentMode = MODE_EDGE_ADJUST
  /\ Bounds = <<1, 1, 159, 127>>
  /\ HasTag(out, "EDGE_ADJUSTED")
  /\ nEvents = 5
  /\ nLines = 0

(***************************************************************************)
(* The display manager                                                     *)
(***************************************************************************)
\* The slots that hold a registered display
Registered == {i \in 0..(displayCount - 1) : displays[i] # <<>>}

\* The name of the display registered in slot i
NameOf(i) == buffers[displays[i][1].name[1]]

\* The names of the registered displays are pairwise different
NamesDistinct == \A i, j \in Registered : NameOf(i) = NameOf(j) => i = j

\* The call just handled was made with a configuration that addDisplay
\* rejects: the registry was full, the name was null, the width or the
\* height was zero, or a registered display had the name
RejectedCall ==
  /\ lastEvent'.kind = "addDisplay"
  /\ LET config == lastEvent'.arg[1]
     IN  \/ displayCount >= MAX_DISPLAYS
         \/ config.name = <<>>
         \/ config.width = 0
         \/ config.height = 0
         \/ \E i \in Registered : NameOf(i) = buffers[config.name[1]]

\* C36: after any sequence of addDisplay calls, displayCount never
\* exceeds MAX_DISPLAYS and no two registered displays share a name; a
\* call rejected for capacity, invalid configuration (null name, zero
\* width or height) or duplicate name returns false and leaves
\* displayCount and the registered displays unchanged; an accepted call
\* increases displayCount by exactly one.
C36_AddDisplay ==
  [][/\ displayCount' <= MAX_DISPLAYS
     /\ NamesDistinct'
     /\ RejectedCall =>
          /\ returned' = "false"
          /\ displayCount' = displayCount
          /\ displays' = displays
     /\ (lastEvent'.kind = "addDisplay" /\ returned' = "true") =>
          displayCount' = displayCount + 1]_vars

\* C36 witness: with every slot of a registry of three holding a display,
\* one of them named by the caller's buffer, a call with a valid size and
\* a name no registered display has was rejected
C36_Witness ==
  /\ MAX_DISPLAYS = 3
  /\ displayCount = MAX_DISPLAYS
  /\ Cardinality(Registered) = MAX_DISPLAYS
  /\ \E i \in Registered : displays[i][1].name[1] \in CharBuffers
  /\ lastEvent.kind = "addDisplay"
  /\ lastEvent.arg[1].name # <<>>
  /\ lastEvent.arg[1].width # 0
  /\ lastEvent.arg[1].height # 0
  /\ \A i \in Registered : NameOf(i) # buffers[lastEvent.arg[1].name[1]]
  /\ returned = "false"
====
